---- MODULE Spec2Model ----
(***************************************************************************)
(* A model of scripts/ais-relay.cjs: the AIS relay that keeps one upstream *)
(* WebSocket to aisstream.io, rebroadcasts every raw message to the        *)
(* attached browsers and aggregates position reports into vessel, history, *)
(* density-grid and candidate stores, from which snapshots are built.      *)
(*                                                                         *)
(* Units.  Time is Date.now() in milliseconds.  Latitudes and longitudes   *)
(* are in tenths of a degree (Deg(2) is 2 degrees), which is exact for     *)
(* every coordinate and radius the program's tables hold.  An MMSI is the  *)
(* sequence of the decimal digits of String(meta.MMSI); a ship name is the *)
(* sequence of its characters.  An optional number (a field that may be    *)
(* missing or non-finite) is <<>> or <<n>>.                                *)
(***************************************************************************)
EXTENDS Integers, Sequences, FiniteSets, TLC

VARIABLES
    now,                  \* Date.now()
    SNAPSHOT_INTERVAL_MS, \* fixed at start-up from the environment
    upstreamSocket,       \* 0 (null) or the index in sockets of the tracked socket
    sockets,              \* every upstream WebSocket created so far: its readyState, the
                          \* number of subscription messages sent on it and the number
                          \* of 'error' events it has emitted
    reconnectTimers,      \* due times of the pending setTimeout(connectUpstream, 5000)
    clients,              \* the Set of attached downstream sockets (their ids)
    clientState,          \* readyState of every downstream socket accepted so far
    messageCount,
    vessels,              \* Map mmsi -> VesselRecord
    vesselHistory,        \* Map mmsi -> report timestamps
    densityGrid,          \* Map gridKey -> cell, kept in insertion order
    candidateReports,     \* Map mmsi -> CandidateReport, kept in insertion order
    snapshotSequence,
    lastSnapshot,
    lastSnapshotAt,
    sent,                 \* per downstream socket: what client.send() was given
    arrivalCount,         \* number of 'message' events of all upstream sockets
    reportLog,            \* per mmsi: its last ingested report, its time and the time of the one before
    returned,             \* what the last buildSnapshot() call returned
    response,             \* the last HTTP response written
    running,              \* FALSE once the process has exited
    openskyToken,         \* <<>> (null) or the cached bearer token
    openskyTokenExpiry,
    openskyCalls,         \* the /opensky requests accepted so far and how far each has got
    tokenRequests,        \* number of token requests sent to the auth server
    openskyCredentials,   \* OPENSKY_CLIENT_ID and OPENSKY_CLIENT_SECRET are both set
    responseMemoryCache,  \* api/cyber-threats.js: cacheKey -> <<>> or <<{data, timestamp}>>
    staleFallbackCache,   \* api/cyber-threats.js: cacheKey -> <<>> or <<{data, timestamp}>>
    sharedCache,          \* the Redis store behind getCachedJson and setCachedJson
    rateRecords,          \* records of the IP rate limiter: ip -> <<>> or <<{count, windowStart}>>
    lastCleanupAt,        \* of the IP rate limiter
    cyberCalls,           \* the cyber-threats requests so far and how far each has got
    args,                 \* the arguments of a function applied on its own
    result                \* what that function returned

connVars == <<upstreamSocket, sockets, reconnectTimers>>
clientVars == <<clients, clientState>>
storeVars == <<vessels, vesselHistory, densityGrid, candidateReports>>
snapVars == <<snapshotSequence, lastSnapshot, lastSnapshotAt>>
obsVars == <<sent, arrivalCount, reportLog, returned, response>>
callVars == <<args, result>>
proxyVars == <<openskyToken, openskyTokenExpiry, openskyCalls, tokenRequests,
               openskyCredentials>>
cyberVars == <<responseMemoryCache, staleFallbackCache, sharedCache, rateRecords,
               lastCleanupAt, cyberCalls>>
sideVars == <<callVars, proxyVars, cyberVars>>
programVars == <<now, SNAPSHOT_INTERVAL_MS, connVars, clientVars, messageCount,
                 storeVars, snapVars, obsVars, running, proxyVars, cyberVars>>
vars == <<now, SNAPSHOT_INTERVAL_MS, connVars, clientVars, messageCount,
          storeVars, snapVars, obsVars, running, sideVars>>

----------------------------------------------------------------------------
(* Program constants *)

Deg(x) == x * 10
DegHalf(x) == x * 10 + 5
Minutes(n) == n * 60 * 1000

GRID_SIZE == Deg(2)
DENSITY_WINDOW == 30 * 60 * 1000
GAP_THRESHOLD == 60 * 60 * 1000
DARK_RECENT_MS == 10 * 60 * 1000
CANDIDATE_RETENTION_MS == 2 * 60 * 60 * 1000
MAX_DENSITY_ZONES == 200
MAX_CANDIDATE_REPORTS == 1500
HISTORY_LIMIT == 10
RECONNECT_DELAY_MS == 5000
MIN_SNAPSHOT_INTERVAL_MS == 2000
DEFAULT_SNAPSHOT_INTERVAL_MS == 5000
MIN_CONGESTION == 5

CHOKEPOINTS ==
    << [name |-> "Strait of Hormuz",  lat |-> DegHalf(26), lon |-> DegHalf(56),  radius |-> Deg(2)],
       [name |-> "Suez Canal",        lat |-> Deg(30),           lon |-> DegHalf(32),  radius |-> Deg(1)],
       [name |-> "Strait of Malacca", lat |-> DegHalf(2),  lon |-> DegHalf(101), radius |-> Deg(2)],
       [name |-> "Bab el-Mandeb",     lat |-> DegHalf(12), lon |-> DegHalf(43),  radius |-> DegHalf(1)],
       [name |-> "Panama Canal",      lat |-> Deg(9),            lon |-> 0 - DegHalf(79), radius |-> Deg(1)],
       [name |-> "Taiwan Strait",     lat |-> DegHalf(24), lon |-> DegHalf(119), radius |-> Deg(2)],
       [name |-> "South China Sea",   lat |-> Deg(15),           lon |-> Deg(115),           radius |-> Deg(5)],
       [name |-> "Black Sea",         lat |-> DegHalf(43), lon |-> Deg(34),            radius |-> Deg(3)] >>

NAVAL_PREFIXES ==
    { <<"U","S","S">>, <<"U","S","N","S">>, <<"H","M","S">>, <<"H","M","A","S">>,
      <<"H","M","C","S">>, <<"I","N","S">>, <<"J","S">>, <<"R","O","K","S">>,
      <<"T","C","G">>, <<"F","S">>, <<"B","N","S">>, <<"R","F","S">>,
      <<"P","L","A","N">>, <<"P","L","A">>, <<"C","G","C">>, <<"P","N","S">>,
      <<"K","R","I">>, <<"I","T","S">>, <<"S","N","S">>, <<"M","M","S","I">> }

\* WebSocket.readyState
CONNECTING == "CONNECTING"
OPEN == "OPEN"
CLOSING == "CLOSING"
CLOSED == "CLOSED"

----------------------------------------------------------------------------
(* Values *)

Absent == [absent |-> TRUE]
Has(x) == "absent" \notin DOMAIN x
IsFinite(x) == Len(x) = 1
Num(x) == x[1]
NoSnapshot == [sequence |-> 0]
IsSnapshot(s) == s.sequence > 0

Min2(a, b) == IF a <= b THEN a ELSE b
Max2(a, b) == IF a >= b THEN a ELSE b
Range(s) == {s[i] : i \in 1..Len(s)}
Prefix(s, n) == SubSeq(s, 1, Min2(n, Len(s)))
\* Array.prototype.filter over s[lo..hi], by halves so that long arrays do not
\* nest deeply
RECURSIVE SelectRange(_, _, _, _)
SelectRange(s, Keep(_), lo, hi) ==
    IF lo > hi THEN <<>>
    ELSE IF lo = hi THEN (IF Keep(s[lo]) THEN <<s[lo]>> ELSE <<>>)
    ELSE SelectRange(s, Keep, lo, (lo + hi) \div 2)
             \o SelectRange(s, Keep, (lo + hi) \div 2 + 1, hi)
SelectIdx(s, Keep(_), i) == SelectRange(s, Keep, i, Len(s))
Without(f, k) == [x \in DOMAIN f \ {k} |-> f[x]]
Put(f, k, v) == (k :> v) @@ f

\* Math.floor(x / GRID_SIZE) * GRID_SIZE
FloorGrid(x) == (x \div GRID_SIZE) * GRID_SIZE
getGridKey(lat, lon) == <<FloorGrid(lat), FloorGrid(lon)>>

\* String.prototype.trim and toUpperCase, on the characters the inputs use
IsSpace(c) == c \in {" ", "\t"}
RECURSIVE TrimLeft(_)
TrimLeft(s) == IF s # <<>> /\ IsSpace(Head(s)) THEN TrimLeft(Tail(s)) ELSE s
RECURSIVE TrimRight(_)
TrimRight(s) ==
    IF s # <<>> /\ IsSpace(s[Len(s)]) THEN TrimRight(SubSeq(s, 1, Len(s) - 1)) ELSE s
Trim(s) == TrimRight(TrimLeft(s))
Lower == <<"a","b","c","d","e","f","g","h","i","j","k","l","m","n","o","p","q","r","s","t","u","v","w","x","y","z">>
Upper == <<"A","B","C","D","E","F","G","H","I","J","K","L","M","N","O","P","Q","R","S","T","U","V","W","X","Y","Z">>
UpperChar(c) ==
    IF \E i \in 1..26 : Lower[i] = c THEN Upper[CHOOSE i \in 1..26 : Lower[i] = c] ELSE c
ToUpperCase(s) == [i \in 1..Len(s) |-> UpperChar(s[i])]
StartsWith(s, p) == Len(s) >= Len(p) /\ SubSeq(s, 1, Len(p)) = p
NAVAL_PREFIX_RE(name) == \E p \in NAVAL_PREFIXES : StartsWith(ToUpperCase(name), p)

isLikelyMilitaryCandidate(meta) ==
    LET mmsi == meta.MMSI
        shipType == meta.ShipType
        name == ToUpperCase(Trim(meta.ShipName))
    IN  \/ /\ IsFinite(shipType)
           /\ \/ Num(shipType) = 35
              \/ Num(shipType) = 55
              \/ (Num(shipType) >= 50 /\ Num(shipType) <= 59)
        \/ (name # <<>> /\ NAVAL_PREFIX_RE(name))
        \/ /\ Len(mmsi) >= 9
           /\ LET suffix == SubSeq(mmsi, 4, Len(mmsi))
              IN  StartsWith(suffix, <<0, 0>>) \/ StartsWith(suffix, <<9, 9>>)

----------------------------------------------------------------------------
(* Upstream messages.  A message is the raw text; what JSON.parse makes of  *)
(* it is the record itself: ok is FALSE when parsing throws.                *)

Meta(mmsi, name, shipType, lat, lon) ==
    [MMSI |-> mmsi, ShipName |-> name, ShipType |-> shipType,
     latitude |-> lat, longitude |-> lon]
Pos(lat, lon, heading, sog, cog) ==
    [Latitude |-> lat, Longitude |-> lon, TrueHeading |-> heading,
     Sog |-> sog, Cog |-> cog]
Report(meta, pos) ==
    [ok |-> TRUE, MessageType |-> "PositionReport", MetaData |-> meta,
     PositionReport |-> pos]
Malformed == [ok |-> FALSE, MessageType |-> "", MetaData |-> Absent,
              PositionReport |-> Absent]
StaticData == [ok |-> TRUE, MessageType |-> "ShipStaticData", MetaData |-> Absent,
               PositionReport |-> Absent]

\* A frame whose payload is not valid UTF-8: a message keeps the field payload
\* only in that case.  JSON.parse of its decoding throws.
Undecodable == [ok |-> FALSE, MessageType |-> "", MetaData |-> Absent,
                PositionReport |-> Absent, payload |-> "invalid UTF-8"]

\* data.toString(): the UTF-8 decoding of the payload.  Valid UTF-8 decodes to
\* the text it encodes; every invalid byte sequence decodes to U+FFFD.
toString(data) ==
    IF "payload" \in DOMAIN data
    THEN [data EXCEPT !.payload = "U+FFFD"]
    ELSE data

\* String(meta.MMSI || '')
MmsiOf(meta) == meta.MMSI
\* Number.isFinite(pos.Latitude) ? pos.Latitude : meta.latitude
LatOf(meta, pos) == IF IsFinite(pos.Latitude) THEN pos.Latitude ELSE meta.latitude
LonOf(meta, pos) == IF IsFinite(pos.Longitude) THEN pos.Longitude ELSE meta.longitude

\* The early returns of processPositionReportForSnapshot
IsIngestible(data) ==
    /\ Has(data.MetaData)
    /\ Has(data.PositionReport)
    /\ MmsiOf(data.MetaData) # <<>>
    /\ IsFinite(LatOf(data.MetaData, data.PositionReport))
    /\ IsFinite(LonOf(data.MetaData, data.PositionReport))

----------------------------------------------------------------------------
(* Ingestion: processPositionReportForSnapshot *)

\* A record that keeps the old name and ship type when the new report has none
VesselRecordMerging(old, meta, pos, lat, lon, t) ==
    [mmsi |-> MmsiOf(meta),
     name |-> IF meta.ShipName = <<>> /\ Has(old) THEN old.name ELSE meta.ShipName,
     lat |-> lat, lon |-> lon, timestamp |-> t,
     shipType |-> IF meta.ShipType = <<>> /\ Has(old) THEN old.shipType ELSE meta.ShipType,
     heading |-> pos.TrueHeading, speed |-> pos.Sog, course |-> pos.Cog]

\* The VesselRecord written by vessels.set (old is the record it replaces, or Absent)
VesselRecord(old, meta, pos, lat, lon, t) ==
    [mmsi |-> MmsiOf(meta), name |-> meta.ShipName, lat |-> lat, lon |-> lon,
     timestamp |-> t, shipType |-> meta.ShipType, heading |-> pos.TrueHeading,
     speed |-> pos.Sog, course |-> pos.Cog]

\* A history that drops the newest timestamp instead of the oldest
PushHistoryDropNewest(history, t) ==
    IF Len(history) >= HISTORY_LIMIT THEN history ELSE Append(history, t)

\* history.push(now); if (history.length > 10) history.shift()
PushHistory(history, t) ==
    LET pushed == Append(history, t)
    IN  IF Len(pushed) > HISTORY_LIMIT THEN Tail(pushed) ELSE pushed

GridKeys(grid) == {grid[i].key : i \in 1..Len(grid)}
CellIndex(grid, key) == CHOOSE i \in 1..Len(grid) : grid[i].key = key
Cell(grid, key) == grid[CellIndex(grid, key)]

\* The cell lookup/creation and cell.vessels.add(mmsi); cell.lastUpdate = now
AddToGrid(grid, mmsi, lat, lon, t) ==
    LET key == getGridKey(lat, lon)
        fresh == [key |-> key,
                  lat |-> FloorGrid(lat) + GRID_SIZE \div 2,
                  lon |-> FloorGrid(lon) + GRID_SIZE \div 2,
                  vessels |-> {}, lastUpdate |-> t, previousCount |-> 0]
        g == IF key \in GridKeys(grid) THEN grid ELSE Append(grid, fresh)
        i == CellIndex(g, key)
    IN  [g EXCEPT ![i].vessels = @ \cup {mmsi}, ![i].lastUpdate = t]

CandidateReport(meta, pos, lat, lon, t) ==
    [mmsi |-> MmsiOf(meta), name |-> meta.ShipName, lat |-> lat, lon |-> lon,
     shipType |-> meta.ShipType, heading |-> pos.TrueHeading,
     speed |-> pos.Sog, course |-> pos.Cog, timestamp |-> t]

\* Map.set on a Map kept as a sequence of entries: an existing key keeps its place
MapIndex(m, mmsi) == CHOOSE i \in 1..Len(m) : m[i].mmsi = mmsi
MapHas(m, mmsi) == \E i \in 1..Len(m) : m[i].mmsi = mmsi
MapSet(m, mmsi, v) ==
    IF MapHas(m, mmsi) THEN [m EXCEPT ![MapIndex(m, mmsi)] = v] ELSE Append(m, v)

UpsertCandidate(cands, meta, pos, lat, lon, t) ==
    IF isLikelyMilitaryCandidate(meta)
    THEN MapSet(cands, MmsiOf(meta), CandidateReport(meta, pos, lat, lon, t))
    ELSE cands

processPositionReportForSnapshot(data) ==
    IF ~IsIngestible(data)
    THEN UNCHANGED <<storeVars, reportLog>>
    ELSE LET meta == data.MetaData
             pos == data.PositionReport
             mmsi == MmsiOf(meta)
             lat == Num(LatOf(meta, pos))
             lon == Num(LonOf(meta, pos))
             old == IF mmsi \in DOMAIN vessels THEN vessels[mmsi] ELSE Absent
             history == IF mmsi \in DOMAIN vesselHistory THEN vesselHistory[mmsi] ELSE <<>>
             before == IF mmsi \in DOMAIN reportLog THEN <<reportLog[mmsi].at>> ELSE <<>>
         IN  /\ vessels' = Put(vessels, mmsi, VesselRecord(old, meta, pos, lat, lon, now))
             /\ vesselHistory' = Put(vesselHistory, mmsi, PushHistory(history, now))
             /\ densityGrid' = AddToGrid(densityGrid, mmsi, lat, lon, now)
             /\ candidateReports' = UpsertCandidate(candidateReports, meta, pos, lat, lon, now)
             /\ reportLog' = Put(reportLog, mmsi, [at |-> now, prev |-> before, data |-> data])

----------------------------------------------------------------------------
(* Retention sweep: cleanupAggregates.  Each operator is one of its loops.  *)

\* A record counted as stale already when it is exactly one window old
IsStaleAtCutoff(vessel, cutoff) == vessel.timestamp <= cutoff

IsStale(vessel, cutoff) == vessel.timestamp < cutoff

SweepVessels(vs, t) ==
    LET cutoff == t - DENSITY_WINDOW
        keep == {m \in DOMAIN vs : ~IsStale(vs[m], cutoff)}
    IN  [m \in keep |-> vs[m]]

\* A filter that also drops the timestamp exactly one window old
FilterHistoryStrict(history, cutoff) ==
    LET Keep(ts) == ts > cutoff IN SelectIdx(history, Keep, 1)

FilterHistory(history, cutoff) ==
    LET Keep(ts) == ts >= cutoff IN SelectIdx(history, Keep, 1)

SweepHistory(hist, t) ==
    LET cutoff == t - DENSITY_WINDOW
        keep == {m \in DOMAIN hist : FilterHistory(hist[m], cutoff) # <<>>}
    IN  [m \in keep |-> FilterHistory(hist[m], cutoff)]

\* A cell loop that notes previousCount after the stale occupants are removed
SweepCellCountingAfter(cell, vs, t) ==
    LET cutoff == t - DENSITY_WINDOW
        remaining == {m \in cell.vessels : m \in DOMAIN vs /\ ~IsStale(vs[m], cutoff)}
    IN  [cell EXCEPT !.previousCount = Cardinality(remaining), !.vessels = remaining]

\* One cell of the grid loop; vs is the vessel map after its own sweep
SweepCell(cell, vs, t) ==
    LET cutoff == t - DENSITY_WINDOW
    IN  [cell EXCEPT
            !.previousCount = Cardinality(cell.vessels),
            !.vessels = {m \in cell.vessels : m \in DOMAIN vs /\ ~IsStale(vs[m], cutoff)}]

\* A cell dropped once it is empty and one density window has passed
CellExpiredAfterWindow(cell, t) ==
    cell.vessels = {} /\ t - cell.lastUpdate > DENSITY_WINDOW

CellExpired(cell, t) ==
    cell.vessels = {} /\ t - cell.lastUpdate > DENSITY_WINDOW * 2

SweepGrid(grid, vs, t) ==
    LET swept == [i \in 1..Len(grid) |-> SweepCell(grid[i], vs, t)]
        Keep(cell) == ~CellExpired(cell, t)
    IN  SelectIdx(swept, Keep, 1)

\* A sweep that drops candidates with the 30-minute window of the vessels
SweepCandidatesByDensityWindow(cands, t) ==
    LET Keep(report) == ~(report.timestamp < t - DENSITY_WINDOW)
    IN  SelectIdx(cands, Keep, 1)

SweepCandidates(cands, t) ==
    LET Keep(report) == ~(report.timestamp < t - CANDIDATE_RETENTION_MS)
    IN  SelectIdx(cands, Keep, 1)

----------------------------------------------------------------------------
(* detectDisruptions *)

\* Math.round(p / q) for q > 0: the nearest integer, a half rounding up
RoundDiv(p, q) == (2 * p + q) \div (2 * q)

\* A distance test that leaves out the vessels exactly on the radius
WithinRadiusStrict(vessel, chokepoint) ==
    LET dlat == vessel.lat - chokepoint.lat
        dlon == vessel.lon - chokepoint.lon
    IN  dlat * dlat + dlon * dlon < chokepoint.radius * chokepoint.radius

\* Math.sqrt(dlat^2 + dlon^2) <= radius
WithinRadius(vessel, chokepoint) ==
    LET dlat == vessel.lat - chokepoint.lat
        dlon == vessel.lon - chokepoint.lon
    IN  dlat * dlat + dlon * dlon <= chokepoint.radius * chokepoint.radius

ChokepointCount(vs, chokepoint) ==
    Cardinality({m \in DOMAIN vs : WithinRadius(vs[m], chokepoint)})

\* chokepoint.radius * 10, the radius being in degrees there and in tenths here
NormalTraffic(chokepoint) == chokepoint.radius

\* A severity whose thresholds are reached rather than exceeded
ChokepointSeverityAtLeast(vesselCount, normalTraffic) ==
    IF 2 * vesselCount >= 3 * normalTraffic THEN "high"
    ELSE IF vesselCount >= normalTraffic THEN "elevated"
    ELSE "low"

ChokepointSeverity(vesselCount, normalTraffic) ==
    IF 2 * vesselCount > 3 * normalTraffic THEN "high"
    ELSE IF vesselCount > normalTraffic THEN "elevated"
    ELSE "low"

ChokepointChangePct(vesselCount, normalTraffic) ==
    IF normalTraffic > 0
    THEN RoundDiv((vesselCount - normalTraffic) * 100, normalTraffic)
    ELSE 0

ChokepointDisruption(vs, chokepoint) ==
    LET vesselCount == ChokepointCount(vs, chokepoint)
    IN  IF vesselCount >= MIN_CONGESTION
        THEN << [type |-> "chokepoint_congestion", name |-> chokepoint.name,
                 lat |-> chokepoint.lat, lon |-> chokepoint.lon,
                 severity |-> ChokepointSeverity(vesselCount, NormalTraffic(chokepoint)),
                 changePct |-> ChokepointChangePct(vesselCount, NormalTraffic(chokepoint)),
                 vesselCount |-> vesselCount] >>
        ELSE <<>>

RECURSIVE ChokepointDisruptions(_, _)
ChokepointDisruptions(vs, i) ==
    IF i > Len(CHOKEPOINTS) THEN <<>>
    ELSE ChokepointDisruption(vs, CHOKEPOINTS[i]) \o ChokepointDisruptions(vs, i + 1)

\* A test that counts a gap of exactly one hour and looks at the first
\* timestamp of the history instead of the one before the last
IsDarkReturnFromFirst(history, t) ==
    /\ Len(history) >= 2
    /\ LET lastSeen == history[Len(history)]
           first == history[1]
       IN  lastSeen - first >= GAP_THRESHOLD /\ t - lastSeen < DARK_RECENT_MS

IsDarkReturn(history, t) ==
    /\ Len(history) >= 2
    /\ LET lastSeen == history[Len(history)]
           secondLast == history[Len(history) - 1]
       IN  lastSeen - secondLast > GAP_THRESHOLD /\ t - lastSeen < DARK_RECENT_MS

DarkShipCount(hist, t) == Cardinality({m \in DOMAIN hist : IsDarkReturn(hist[m], t)})

GapSeverity(darkShipCount) ==
    IF darkShipCount > 20 THEN "high"
    ELSE IF darkShipCount > 10 THEN "elevated"
    ELSE "low"

GapDisruption(hist, t) ==
    LET darkShipCount == DarkShipCount(hist, t)
    IN  IF darkShipCount >= 1
        THEN << [type |-> "gap_spike", name |-> "AIS Gap Spike Detected",
                 lat |-> 0, lon |-> 0,
                 severity |-> GapSeverity(darkShipCount),
                 changePct |-> darkShipCount * 10,
                 darkShips |-> darkShipCount] >>
        ELSE <<>>

detectDisruptions(vs, hist, t) == ChokepointDisruptions(vs, 1) \o GapDisruption(hist, t)

----------------------------------------------------------------------------
(* calculateDensityZones.  intensity is 0.2 + 0.8 * (ln(n+1) - ln(min+1)) /  *)
(* (ln(max+1) - ln(min+1)), or 0.5 when max = min: it grows strictly with    *)
(* the occupant count n, so the sort by falling intensity is the sort by     *)
(* falling n, and the zone keeps n in place of the real number.              *)

DeltaPct(size, previousCount) ==
    IF previousCount > 0 THEN RoundDiv((size - previousCount) * 100, previousCount) ELSE 0

Zone(cell) ==
    [id |-> cell.key, lat |-> cell.lat, lon |-> cell.lon,
     occupants |-> Cardinality(cell.vessels),
     deltaPct |-> DeltaPct(Cardinality(cell.vessels), cell.previousCount),
     shipsPerDay |-> Cardinality(cell.vessels) * 48,
     highTraffic |-> Cardinality(cell.vessels) >= 10]

\* Array.prototype.sort((a, b) => b.intensity - a.intensity) is stable: zones
\* of equal intensity keep their order.  The sort is a merge sort by halves;
\* A and B are sorted, and every zone of A stood before every zone of B.
RECURSIVE MergeZones(_, _)
MergeZones(A, B) ==
    IF A = <<>> THEN B
    ELSE IF B = <<>> THEN A
    ELSE LET m == (Len(A) + 1) \div 2
             k == Cardinality({j \in 1..Len(B) : B[j].occupants > A[m].occupants})
         IN  MergeZones(SubSeq(A, 1, m - 1), SubSeq(B, 1, k)) \o <<A[m]>>
                 \o MergeZones(SubSeq(A, m + 1, Len(A)), SubSeq(B, k + 1, Len(B)))
RECURSIVE SortZonesRange(_, _, _)
SortZonesRange(zones, lo, hi) ==
    IF lo > hi THEN <<>>
    ELSE IF lo = hi THEN <<zones[lo]>>
    ELSE MergeZones(SortZonesRange(zones, lo, (lo + hi) \div 2),
                    SortZonesRange(zones, (lo + hi) \div 2 + 1, hi))
\* The first i zones, sorted
SortZones(zones, i) == SortZonesRange(zones, 1, i)

\* A zone list that is cut to the cap before it is sorted
calculateDensityZonesTruncatedFirst(grid) ==
    LET Qualifies(cell) == Cardinality(cell.vessels) >= 2
        cells == SelectIdx(grid, Qualifies, 1)
        zones == [i \in 1..Len(cells) |-> Zone(cells[i])]
        cut == Prefix(zones, MAX_DENSITY_ZONES)
    IN  SortZones(cut, Len(cut))

calculateDensityZones(grid) ==
    LET Qualifies(cell) == Cardinality(cell.vessels) >= 2
        cells == SelectIdx(grid, Qualifies, 1)
        zones == [i \in 1..Len(cells) |-> Zone(cells[i])]
    IN  Prefix(SortZones(zones, Len(zones)), MAX_DENSITY_ZONES)

\* Array.from(candidateReports.values()).sort((a, b) => b.timestamp - a.timestamp):
\* stable, as a merge sort by halves
RECURSIVE MergeReports(_, _)
MergeReports(A, B) ==
    IF A = <<>> THEN B
    ELSE IF B = <<>> THEN A
    ELSE LET m == (Len(A) + 1) \div 2
             k == Cardinality({j \in 1..Len(B) : B[j].timestamp > A[m].timestamp})
         IN  MergeReports(SubSeq(A, 1, m - 1), SubSeq(B, 1, k)) \o <<A[m]>>
                 \o MergeReports(SubSeq(A, m + 1, Len(A)), SubSeq(B, k + 1, Len(B)))
RECURSIVE SortReportsRange(_, _, _)
SortReportsRange(reports, lo, hi) ==
    IF lo > hi THEN <<>>
    ELSE IF lo = hi THEN <<reports[lo]>>
    ELSE MergeReports(SortReportsRange(reports, lo, (lo + hi) \div 2),
                      SortReportsRange(reports, (lo + hi) \div 2 + 1, hi))
\* The first i reports, sorted
SortReports(reports, i) == SortReportsRange(reports, 1, i)

\* A serialization that truncates the registry before it sorts
getCandidateReportsTruncatedFirst(cands) ==
    LET cut == Prefix(cands, MAX_CANDIDATE_REPORTS)
    IN  SortReports(cut, Len(cut))

getCandidateReportsSnapshot(cands) ==
    Prefix(SortReports(cands, Len(cands)), MAX_CANDIDATE_REPORTS)

----------------------------------------------------------------------------
(* buildSnapshot *)

cleanupAggregates ==
    /\ vessels' = SweepVessels(vessels, now)
    /\ vesselHistory' = SweepHistory(vesselHistory, now)
    /\ densityGrid' = SweepGrid(densityGrid, vessels', now)
    /\ candidateReports' = SweepCandidates(candidateReports, now)

\* lastSnapshot && now - lastSnapshotAt < Math.floor(SNAPSHOT_INTERVAL_MS / 2)
Debounced ==
    IsSnapshot(lastSnapshot) /\ now - lastSnapshotAt < SNAPSHOT_INTERVAL_MS \div 2

\* A sequence number advanced once by the sweep and once by the build
NextSequenceTwice(sequence) == sequence + 2

NextSequence(sequence) == sequence + 1

\* upstreamSocket?.readyState === WebSocket.OPEN
IsConnected(tracked, socks) == tracked # 0 /\ socks[tracked].readyState = OPEN

\* A build that sweeps before it looks at the cache
buildSnapshotSweepFirst(connected) ==
    /\ cleanupAggregates
    /\ IF Debounced
       THEN /\ returned' = lastSnapshot
            /\ UNCHANGED snapVars
       ELSE /\ snapshotSequence' = NextSequence(snapshotSequence)
            /\ lastSnapshot' =
                   [sequence |-> snapshotSequence',
                    timestamp |-> now,
                    status |-> [connected |-> connected,
                                vessels |-> Cardinality(DOMAIN vessels'),
                                messages |-> messageCount,
                                clients |-> Cardinality(clients)],
                    disruptions |-> detectDisruptions(vessels', vesselHistory', now),
                    density |-> calculateDensityZones(densityGrid')]
            /\ lastSnapshotAt' = now
            /\ returned' = lastSnapshot'

\* connected is the upstream state after what the caller did before the call
buildSnapshot(connected) ==
    IF Debounced
    THEN /\ returned' = lastSnapshot
         /\ UNCHANGED <<storeVars, snapVars>>
    ELSE /\ cleanupAggregates
         /\ snapshotSequence' = NextSequence(snapshotSequence)
         /\ lastSnapshot' =
                [sequence |-> snapshotSequence',
                 timestamp |-> now,
                 status |-> [connected |-> connected,
                             vessels |-> Cardinality(DOMAIN vessels'),
                             messages |-> messageCount,
                             clients |-> Cardinality(clients)],
                 disruptions |-> detectDisruptions(vessels', vesselHistory', now),
                 density |-> calculateDensityZones(densityGrid')]
         /\ lastSnapshotAt' = now
         /\ returned' = lastSnapshot'

----------------------------------------------------------------------------
(* connectUpstream and the handlers of the socket it creates *)

\* A test that forgets the socket that is still connecting
ShouldSkipConnectOpenOnly ==
    upstreamSocket # 0 /\ sockets[upstreamSocket].readyState = OPEN

\* readyState is OPEN or CONNECTING: the call returns at once
ShouldSkipConnect ==
    upstreamSocket # 0 /\ sockets[upstreamSocket].readyState \in {OPEN, CONNECTING}

connectUpstream ==
    IF ShouldSkipConnect
    THEN UNCHANGED <<upstreamSocket, sockets>>
    ELSE /\ sockets' = Append(sockets, [readyState |-> CONNECTING, subscribed |-> 0, errors |-> 0])
         /\ upstreamSocket' = Len(sockets) + 1

\* socket.on('open')
SocketOpen(s) ==
    /\ sockets[s].readyState = CONNECTING
    /\ sockets' = IF upstreamSocket # s
                  THEN [sockets EXCEPT ![s].readyState = CLOSING]
                  ELSE [sockets EXCEPT ![s].readyState = OPEN, ![s].subscribed = @ + 1]
    /\ UNCHANGED <<now, SNAPSHOT_INTERVAL_MS, sideVars, running, upstreamSocket, reconnectTimers, clientVars,
                   messageCount, storeVars, snapVars, sent, arrivalCount, reportLog,
                   returned, response>>

\* A loop that sends every message twice
BroadcastTwice(outbox, message, n) ==
    [c \in DOMAIN outbox |->
        IF c \in clients /\ clientState[c] = OPEN
        THEN outbox[c] \o <<[n |-> n, raw |-> message], [n |-> n, raw |-> message]>>
        ELSE outbox[c]]

\* A loop that stops after the first client it sent to
RecipientsFirstOnly ==
    {c \in clients : clientState[c] = OPEN /\ \A d \in clients : clientState[d] = OPEN => c <= d}

\* The clients the message loop sends to
Recipients == {c \in clients : clientState[c] = OPEN}

\* for (const client of clients) if (client.readyState === WebSocket.OPEN) client.send(message)
Broadcast(outbox, message, n) ==
    [c \in DOMAIN outbox |->
        IF c \in Recipients THEN Append(outbox[c], [n |-> n, raw |-> message]) ELSE outbox[c]]

\* A message handler that counts the position reports only
SocketMessageCountingReports(s, message) ==
    /\ sockets[s].readyState \in {OPEN, CLOSING}
    /\ arrivalCount' = arrivalCount + 1
    /\ IF upstreamSocket # s
       THEN UNCHANGED <<messageCount, storeVars, reportLog, sent>>
       ELSE /\ IF message.ok /\ message.MessageType = "PositionReport"
               THEN /\ messageCount' = messageCount + 1
                    /\ processPositionReportForSnapshot(message)
               ELSE UNCHANGED <<messageCount, storeVars, reportLog>>
            /\ sent' = Broadcast(sent, toString(message), arrivalCount')
    /\ UNCHANGED <<now, SNAPSHOT_INTERVAL_MS, sideVars, running, connVars, clientVars, snapVars, returned, response>>

\* socket.on('message'); n is the message's place in the upstream arrival order
SocketMessage(s, message) ==
    /\ sockets[s].readyState \in {OPEN, CLOSING}
    /\ arrivalCount' = arrivalCount + 1
    /\ IF upstreamSocket # s
       THEN UNCHANGED <<messageCount, storeVars, reportLog, sent>>
       ELSE /\ messageCount' = messageCount + 1
            /\ IF message.ok /\ message.MessageType = "PositionReport"
               THEN processPositionReportForSnapshot(message)
               ELSE UNCHANGED <<storeVars, reportLog>>
            /\ sent' = Broadcast(sent, toString(message), arrivalCount')
    /\ UNCHANGED <<now, SNAPSHOT_INTERVAL_MS, sideVars, running, connVars, clientVars, snapVars, returned, response>>

\* The socket starts closing (a close frame, a failed handshake): no handler runs
SocketClosing(s) ==
    /\ sockets[s].readyState \in {CONNECTING, OPEN}
    /\ sockets' = [sockets EXCEPT ![s].readyState = CLOSING]
    /\ UNCHANGED <<now, SNAPSHOT_INTERVAL_MS, sideVars, running, upstreamSocket, reconnectTimers, clientVars,
                   messageCount, storeVars, snapVars, sent, arrivalCount, reportLog,
                   returned, response>>

\* A close handler that schedules nothing
ScheduleNothing(timers, t) == timers

\* What the close handler schedules
ScheduleReconnect(timers, t) == Append(timers, t + RECONNECT_DELAY_MS)

\* A close handler without the check of the tracked socket
SocketCloseUnguarded(s) ==
    /\ sockets[s].readyState # CLOSED
    /\ sockets' = [sockets EXCEPT ![s].readyState = CLOSED]
    /\ upstreamSocket' = 0
    /\ reconnectTimers' = ScheduleReconnect(reconnectTimers, now)
    /\ UNCHANGED <<now, SNAPSHOT_INTERVAL_MS, sideVars, running, clientVars, messageCount, storeVars, snapVars,
                   sent, arrivalCount, reportLog, returned, response>>

\* socket.on('close')
SocketClose(s) ==
    /\ sockets[s].readyState # CLOSED
    /\ sockets' = [sockets EXCEPT ![s].readyState = CLOSED]
    /\ IF upstreamSocket = s
       THEN /\ upstreamSocket' = 0
            /\ reconnectTimers' = ScheduleReconnect(reconnectTimers, now)
       ELSE UNCHANGED <<upstreamSocket, reconnectTimers>>
    /\ UNCHANGED <<now, SNAPSHOT_INTERVAL_MS, sideVars, running, clientVars, messageCount, storeVars, snapVars,
                   sent, arrivalCount, reportLog, returned, response>>

\* An error handler that gives the socket up and reconnects
SocketErrorReconnecting(s, closing) ==
    /\ sockets[s].readyState # CLOSED
    /\ sockets' = [sockets EXCEPT ![s].errors = @ + 1,
                                  ![s].readyState = IF closing THEN CLOSING ELSE @]
    /\ IF upstreamSocket = s
       THEN /\ upstreamSocket' = 0
            /\ reconnectTimers' = ScheduleReconnect(reconnectTimers, now)
       ELSE UNCHANGED <<upstreamSocket, reconnectTimers>>
    /\ UNCHANGED <<now, SNAPSHOT_INTERVAL_MS, sideVars, running, clientVars, messageCount, storeVars, snapVars,
                   sent, arrivalCount, reportLog, returned, response>>

\* socket.on('error'): the handler logs the error.  closing: the WebSocket
\* library has moved the socket to CLOSING before it emits the event (a failed
\* handshake, a protocol error); the close event follows on its own.
SocketError(s, closing) ==
    /\ sockets[s].readyState # CLOSED
    /\ sockets' = [sockets EXCEPT ![s].errors = @ + 1,
                                  ![s].readyState = IF closing THEN CLOSING ELSE @]
    /\ UNCHANGED <<now, SNAPSHOT_INTERVAL_MS, sideVars, running, upstreamSocket, reconnectTimers, clientVars,
                   messageCount, storeVars, snapVars, sent, arrivalCount, reportLog,
                   returned, response>>

\* setTimeout(connectUpstream, 5000) falls due
ReconnectTimer ==
    /\ reconnectTimers # <<>>
    /\ Head(reconnectTimers) <= now
    /\ reconnectTimers' = Tail(reconnectTimers)
    /\ connectUpstream
    /\ UNCHANGED <<now, SNAPSHOT_INTERVAL_MS, sideVars, running, clientVars, messageCount, storeVars, snapVars,
                   sent, arrivalCount, reportLog, returned, response>>

----------------------------------------------------------------------------
(* Downstream clients: wss.on('connection') and the client's close *)

ClientConnect ==
    LET ws == Len(clientState) + 1
    IN  /\ clientState' = Append(clientState, OPEN)
        /\ clients' = clients \cup {ws}
        /\ sent' = Append(sent, <<>>)
        /\ connectUpstream
        /\ UNCHANGED <<now, SNAPSHOT_INTERVAL_MS, sideVars, running, reconnectTimers, messageCount, storeVars,
                       snapVars, arrivalCount, reportLog, returned, response>>

\* The client's closing handshake starts: readyState leaves OPEN, no handler runs
ClientClosing(c) ==
    /\ clientState[c] = OPEN
    /\ clientState' = [clientState EXCEPT ![c] = CLOSING]
    /\ UNCHANGED <<now, SNAPSHOT_INTERVAL_MS, sideVars, running, connVars, clients, messageCount, storeVars,
                   snapVars, sent, arrivalCount, reportLog, returned, response>>

\* ws.on('close')
ClientClose(c) ==
    /\ clientState[c] # CLOSED
    /\ clientState' = [clientState EXCEPT ![c] = CLOSED]
    /\ clients' = clients \ {c}
    /\ UNCHANGED <<now, SNAPSHOT_INTERVAL_MS, sideVars, running, connVars, messageCount, storeVars, snapVars,
                   sent, arrivalCount, reportLog, returned, response>>

----------------------------------------------------------------------------
(* GET /ais/snapshot, the snapshot timer and the clock *)

SnapshotRequest(includeCandidates) ==
    /\ connectUpstream
    /\ buildSnapshot(IsConnected(upstreamSocket', sockets'))
    /\ response' = [route |-> "/ais/snapshot", status |-> 200,
                    snapshot |-> returned',
                    candidateReports |->
                        IF includeCandidates
                        THEN getCandidateReportsSnapshot(candidateReports')
                        ELSE <<>>]
    /\ UNCHANGED <<now, SNAPSHOT_INTERVAL_MS, sideVars, running, reconnectTimers, clientVars, messageCount,
                   sent, arrivalCount, reportLog>>

\* A timer callback that rebuilds on every firing
SnapshotTimerUnconditional ==
    /\ buildSnapshot(IsConnected(upstreamSocket, sockets))
    /\ UNCHANGED <<now, SNAPSHOT_INTERVAL_MS, sideVars, running, connVars, clientVars, messageCount,
                   sent, arrivalCount, reportLog, response>>

\* A timer callback that rebuilds only while the upstream connection is open
SnapshotTimerConnectedOnly ==
    /\ IF IsConnected(upstreamSocket, sockets)
       THEN buildSnapshot(IsConnected(upstreamSocket, sockets))
       ELSE UNCHANGED <<storeVars, snapVars, returned>>
    /\ UNCHANGED <<now, SNAPSHOT_INTERVAL_MS, sideVars, running, connVars, clientVars, messageCount,
                   sent, arrivalCount, reportLog, response>>

\* setInterval(..., SNAPSHOT_INTERVAL_MS): one firing of the callback
SnapshotTimer ==
    /\ IF IsConnected(upstreamSocket, sockets) \/ DOMAIN vessels # {}
       THEN buildSnapshot(IsConnected(upstreamSocket, sockets))
       ELSE UNCHANGED <<storeVars, snapVars, returned>>
    /\ UNCHANGED <<now, SNAPSHOT_INTERVAL_MS, sideVars, running, connVars, clientVars, messageCount,
                   sent, arrivalCount, reportLog, response>>

\* Time passes
Tick(d) ==
    /\ now' = now + d
    /\ UNCHANGED <<SNAPSHOT_INTERVAL_MS, sideVars, running, connVars, clientVars, messageCount, storeVars,
                   snapVars, sent, arrivalCount, reportLog, returned, response>>

\* Math.max(2000, Number(process.env.AIS_SNAPSHOT_INTERVAL_MS || 5000))
SnapshotInterval(env) ==
    Max2(MIN_SNAPSHOT_INTERVAL_MS, IF env = <<>> THEN DEFAULT_SNAPSHOT_INTERVAL_MS ELSE Num(env))

\* let openskyToken = null; let openskyTokenExpiry = 0; no request accepted yet
ProxyCache ==
    /\ openskyToken = <<>>
    /\ openskyTokenExpiry = 0
    /\ openskyCalls = <<>>
    /\ tokenRequests = 0

ProxyLoaded == ProxyCache /\ openskyCredentials = TRUE

\* api/cyber-threats.js
DEFAULT_LIMIT == 500
MAX_LIMIT == 1000
DEFAULT_DAYS == 14
MAX_DAYS == 90
CACHE_TTL_SECONDS == 10 * 60
CACHE_TTL_MS == CACHE_TTL_SECONDS * 1000
STALE_FALLBACK_MAX_AGE_MS == 24 * 60 * 60 * 1000
RATE_LIMIT == 20
RATE_WINDOW_MS == 60 * 1000

\* Number.parseInt of the query parameter, the fallback when it is absent,
\* clamped to min..max
clampInt(rawValue, fallback, min, max) ==
    IF rawValue = <<>> THEN fallback ELSE Max2(min, Min2(max, rawValue[1]))

\* `${BASE_CACHE_KEY}:limit=${limit}:days=${days}` of the clamped parameters
cacheKey(limitParam, daysParam) ==
    [limit |-> clampInt(limitParam, DEFAULT_LIMIT, 1, MAX_LIMIT),
     days |-> clampInt(daysParam, DEFAULT_DAYS, 1, MAX_DAYS)]

\* The limit and days query parameters of the requests, absent or a number
LimitParams == {<<>>, <<100>>, <<500>>}
DaysParams == {<<>>, <<14>>}
CyberKeys == {cacheKey(limitParam, daysParam) : limitParam \in LimitParams, daysParam \in DaysParams}

\* The x-forwarded-for addresses of the requests
ClientIps == {"198.51.100.13"}

\* const responseMemoryCache = new Map(); const staleFallbackCache = new Map();
\* lastCleanupAt = 0 in the rate limiter; nothing in the Redis store and no
\* request accepted yet
CyberCaches ==
    /\ responseMemoryCache = [key \in CyberKeys |-> <<>>]
    /\ staleFallbackCache = [key \in CyberKeys |-> <<>>]
    /\ sharedCache = [key \in CyberKeys |-> <<>>]
    /\ lastCleanupAt = 0
    /\ cyberCalls = <<>>

CyberLoaded == CyberCaches /\ rateRecords = [ip \in ClientIps |-> <<>>]

\* The program's state after the module has loaded; env is AIS_SNAPSHOT_INTERVAL_MS
RelayLoaded(env) ==
    /\ now = 0
    /\ SNAPSHOT_INTERVAL_MS = SnapshotInterval(env)
    /\ upstreamSocket = 0
    /\ sockets = <<>>
    /\ reconnectTimers = <<>>
    /\ clients = {}
    /\ clientState = <<>>
    /\ messageCount = 0
    /\ vessels = <<>>
    /\ vesselHistory = <<>>
    /\ densityGrid = <<>>
    /\ candidateReports = <<>>
    /\ snapshotSequence = 0
    /\ lastSnapshot = NoSnapshot
    /\ lastSnapshotAt = 0
    /\ sent = <<>>
    /\ arrivalCount = 0
    /\ reportLog = <<>>
    /\ returned = NoSnapshot
    /\ response = [route |-> "", status |-> 0]
    /\ running = TRUE

Loaded(env) == RelayLoaded(env) /\ ProxyLoaded /\ CyberLoaded

\* The state after the module has loaded, no function applied on its own
Start(env) ==
    /\ Loaded(env)
    /\ args = Absent
    /\ result = Absent

----------------------------------------------------------------------------
(* Inputs *)

MMSI_A == <<2, 1, 1, 3, 4, 5, 6, 7, 8>>
MMSI_B == <<3, 6, 6, 9, 9, 1, 2, 3, 4>>
None == <<>>

\* A cargo vessel in the Strait of Hormuz (26.5, 56.5)
ReportA1 ==
    Report(Meta(MMSI_A, <<"E","V","E","R">>, <<70>>, <<DegHalf(26)>>, <<DegHalf(56)>>),
           Pos(<<DegHalf(26)>>, <<DegHalf(56)>>, 90, 12, 91))
\* The same vessel at the Suez Canal (30.0, 32.5): no name, no type, and no
\* position in the report itself, so that the metadata position is used
ReportA2 ==
    Report(Meta(MMSI_A, None, None, <<Deg(30)>>, <<DegHalf(32)>>),
           Pos(None, None, 180, 0, 181))
\* A naval vessel off the Panama Canal (9.0, -79.5)
ReportB1 ==
    Report(Meta(MMSI_B, <<"u","s","s"," ","X">>, <<35>>, None, None),
           Pos(<<Deg(9)>>, <<0 - DegHalf(79)>>, 270, 20, 271))

HalfHour == 30 * 60 * 1000

----------------------------------------------------------------------------
(* SpecAgg: ingestion, sweeps and snapshots over hours, in steps of half an *)
(* hour.  The first /ais/snapshot request opens the upstream connection,    *)
(* which stays up; later snapshots are the timer's.                         *)

MaxTicksAgg == 3
MaxMessagesAgg == 3

AggMessages == {ReportA1, ReportA2, ReportB1}

InitAgg == Start(None)

NextAgg ==
    \/ (upstreamSocket = 0 /\ SnapshotRequest(FALSE))
    \/ \E s \in 1..Len(sockets) : SocketOpen(s)
    \/ /\ arrivalCount < MaxMessagesAgg
       /\ \E s \in 1..Len(sockets), message \in AggMessages : SocketMessage(s, message)
    \/ SnapshotTimer
    \/ (now < MaxTicksAgg * HalfHour /\ Tick(HalfHour))

SpecAgg == InitAgg /\ [][NextAgg]_vars

\* The step is a snapshot rebuild: the sweep, then detection and serialization
Rebuilt == snapshotSequence' # snapshotSequence

\* The vessels with a fresh record whose latest coordinates bin into the cell
FreshInCell(key) ==
    {m \in DOMAIN vessels :
        /\ now - vessels[m].timestamp <= DENSITY_WINDOW
        /\ getGridKey(vessels[m].lat, vessels[m].lon) = key}

OccupancyMatchesFreshVessels ==
    /\ \A i \in 1..Len(densityGrid) :
          Cardinality(densityGrid[i].vessels) = Cardinality(FreshInCell(densityGrid[i].key))
    /\ \A m \in DOMAIN vessels :
          now - vessels[m].timestamp <= DENSITY_WINDOW =>
              Cardinality({i \in 1..Len(densityGrid) : m \in densityGrid[i].vessels}) = 1

\* C1: immediately after a sweep, every density cell's occupant count is the
\* number of vessels with a fresh VesselRecord whose latest position bins into
\* that cell, and every fresh vessel is counted in exactly one cell.
C1_OccupancyMatchesFreshVessels ==
    [][ Rebuilt => OccupancyMatchesFreshVessels' ]_vars

NinetyMinutes == 90 * 60 * 1000

HasGapSpike(snapshot) ==
    \E i \in 1..Len(snapshot.disruptions) :
        /\ snapshot.disruptions[i].type = "gap_spike"
        /\ snapshot.disruptions[i].darkShips >= 1

\* C2: when a vessel's last two reports are 90 minutes apart and the snapshot
\* is rebuilt less than 10 minutes after the second, the snapshot's disruptions
\* hold a gap_spike record with darkShips >= 1.
C2_DarkReturnReported ==
    [][ ( /\ Rebuilt
          /\ \E m \in DOMAIN reportLog :
                /\ reportLog[m].prev # <<>>
                /\ reportLog[m].at - Num(reportLog[m].prev) = NinetyMinutes
                /\ now - reportLog[m].at < DARK_RECENT_MS )
        => HasGapSpike(lastSnapshot') ]_vars

\* No snapshot ever holds a gap_spike record: the sweep that precedes the
\* detector leaves no two timestamps more than 30 minutes apart
NoGapSpikeEver == IsSnapshot(lastSnapshot) => ~HasGapSpike(lastSnapshot)

\* C9: a VesselRecord holds exactly the fields of the most recent valid report
\* of its vessel and the time that report arrived, whatever was reported
\* before, whatever other vessels reported and whatever the sweeps removed.
C9_RecordIsLastReport ==
    \A m \in DOMAIN vessels :
        /\ m \in DOMAIN reportLog
        /\ LET meta == reportLog[m].data.MetaData
               pos == reportLog[m].data.PositionReport
               v == vessels[m]
           IN  /\ DOMAIN v = {"mmsi", "name", "lat", "lon", "timestamp", "shipType",
                              "heading", "speed", "course"}
               /\ v.mmsi = m
               /\ meta.MMSI = m
               /\ v.name = meta.ShipName
               /\ v.shipType = meta.ShipType
               /\ v.heading = pos.TrueHeading
               /\ v.speed = pos.Sog
               /\ v.course = pos.Cog
               /\ v.timestamp = reportLog[m].at
               /\ <<v.lat>> = (IF pos.Latitude # <<>> THEN pos.Latitude ELSE meta.latitude)
               /\ <<v.lon>> = (IF pos.Longitude # <<>> THEN pos.Longitude ELSE meta.longitude)

\* A vessel reported twice, the second report differing in every field, beside
\* another vessel and after a sweep
C9_Witness ==
    /\ MMSI_A \in DOMAIN vessels
    /\ MMSI_B \in DOMAIN vessels
    /\ reportLog[MMSI_A].data = ReportA2
    /\ reportLog[MMSI_A].prev # <<>>
    /\ snapshotSequence >= 2
    /\ vessels[MMSI_A].timestamp > 0

----------------------------------------------------------------------------
(* SpecDebounce: snapshot requests and timer firings half a second apart,   *)
(* under the default interval (5000 ms) and under an odd one (2001 ms).     *)

MaxTicksDebounce == 5
MaxMessagesDebounce == 1
HalfSecond == 5 * 100

DebounceMessages == {ReportA1, ReportB1}

InitDebounce == \E env \in {None, <<2001>>} : Start(env)

NextDebounce ==
    \/ \E includeCandidates \in BOOLEAN : SnapshotRequest(includeCandidates)
    \/ \E s \in 1..Len(sockets) : SocketOpen(s)
    \/ /\ arrivalCount < MaxMessagesDebounce
       /\ \E s \in 1..Len(sockets), message \in DebounceMessages : SocketMessage(s, message)
    \/ SnapshotTimer
    \/ (now < MaxTicksDebounce * HalfSecond /\ Tick(HalfSecond))

SpecDebounce == InitDebounce /\ [][NextDebounce]_vars

\* The step is a call of buildSnapshot: a request, or a timer firing that
\* passes the timer's own test
BuildCalled ==
    \/ \E includeCandidates \in BOOLEAN : SnapshotRequest(includeCandidates)
    \/ /\ SnapshotTimer
       /\ (IsConnected(upstreamSocket, sockets) \/ DOMAIN vessels # {})

\* C3: the sequence numbers of the snapshots that successive buildSnapshot
\* calls return never decrease, and the sequence number changes only in a call
\* that rebuilds, and then by exactly 1, the rebuilt snapshot carrying it.
C3_SequenceMonotonic ==
    [][ /\ returned'.sequence >= returned.sequence
        /\ snapshotSequence' >= snapshotSequence
        /\ snapshotSequence' # snapshotSequence =>
              /\ snapshotSequence' = snapshotSequence + 1
              /\ BuildCalled
              /\ ~(IsSnapshot(lastSnapshot) /\ now - lastSnapshotAt < SNAPSHOT_INTERVAL_MS \div 2)
              /\ lastSnapshotAt' = now
              /\ returned'.sequence = snapshotSequence'
              /\ returned'.timestamp = now
        /\ (BuildCalled /\ snapshotSequence' = snapshotSequence) =>
              (returned' = lastSnapshot /\ UNCHANGED lastSnapshot) ]_vars

\* Two rebuilds, then a message, then a request answered from the cache: the
\* response carries the message's candidate report and a snapshot built before it
C3_Witness ==
    /\ snapshotSequence >= 2
    /\ returned.sequence = snapshotSequence
    /\ response.status = 200
    /\ response.snapshot = lastSnapshot
    /\ response.candidateReports # <<>>
    /\ response.snapshot.timestamp < response.candidateReports[1].timestamp

----------------------------------------------------------------------------
(* SpecFanout: clients attach, start closing and close while messages       *)
(* arrive and the upstream socket is lost; a client attach reconnects.      *)

MaxClientsFanout == 2
MaxMessagesFanout == 2

FanoutMessages == {Malformed, StaticData}

\* The upstream feed alternates a payload that does not parse and one that does
NextFanoutMessage == IF arrivalCount % 2 = 0 THEN Malformed ELSE StaticData

NextFanout ==
    \/ (Len(clientState) < MaxClientsFanout /\ ClientConnect)
    \/ \E c \in 1..Len(clientState) : ClientClosing(c)
    \/ \E c \in 1..Len(clientState) : ClientClose(c)
    \/ \E s \in 1..Len(sockets) : SocketOpen(s)
    \/ /\ arrivalCount < MaxMessagesFanout
       /\ \E s \in 1..Len(sockets) : SocketMessage(s, NextFanoutMessage)
    \/ \E s \in 1..Len(sockets) : SocketClosing(s)
    \/ \E s \in 1..Len(sockets) : SocketClose(s)

SpecFanout == Start(None) /\ [][NextFanout]_vars

\* The step is the arrival of the message on the tracked upstream socket
TrackedMessage(message) ==
    /\ upstreamSocket # 0
    /\ SocketMessage(upstreamSocket, message)

\* What a client's outbox holds after the message has been sent to it
Delivered(c, message) == Append(sent[c], [n |-> arrivalCount + 1, raw |-> message])

StrictlyIncreasing(outbox) ==
    /\ \A i \in 1..Len(outbox) : outbox[i].n \in 1..arrivalCount
    /\ \A i, j \in 1..Len(outbox) : i < j => outbox[i].n < outbox[j].n

\* C6: for each downstream client, the messages sent to it are a subsequence
\* of the upstream arrival sequence, in arrival order and without repeats: a
\* step leaves an outbox alone or appends the one message that arrives in it.
C6_SentIsOrderedSubsequence ==
    /\ [](\A c \in DOMAIN sent : StrictlyIncreasing(sent[c]))
    /\ [][ \A c \in DOMAIN sent :
              \/ sent'[c] = sent[c]
              \/ \E message \in FanoutMessages :
                    /\ TrackedMessage(message)
                    /\ sent'[c] = Delivered(c, message) ]_vars

\* A client that received messages from two upstream sockets, with another
\* client closed and a stale socket behind
C6_Witness ==
    /\ Len(sockets) >= 2
    /\ sockets[1].readyState = CLOSED
    /\ \E c \in DOMAIN sent :
          /\ Len(sent[c]) >= 2
          /\ sent[c][1].raw # sent[c][2].raw
    /\ \E d \in DOMAIN clientState : clientState[d] = CLOSED

----------------------------------------------------------------------------
(* SpecReconnect: the upstream socket is lost and regained in steps of the  *)
(* reconnect delay, with at most one client, one /ais/snapshot request and  *)
(* the reconnect timers.  A due timer fires and time passes (weak fairness).*)

MaxSocketsReconnect == 3
MaxTicksReconnect == 2

Horizon == MaxTicksReconnect * RECONNECT_DELAY_MS

\* The call would return at once, or there is room for one more socket
MayConnect == ShouldSkipConnect \/ Len(sockets) < MaxSocketsReconnect

NextReconnect ==
    \/ (MayConnect /\ response.status = 0 /\ SnapshotRequest(FALSE))
    \/ (MayConnect /\ clientState = <<>> /\ ClientConnect)
    \/ \E c \in 1..Len(clientState) : ClientClose(c)
    \/ \E s \in 1..Len(sockets) : SocketOpen(s)
    \/ \E s \in 1..Len(sockets) : SocketClosing(s)
    \/ \E s \in 1..Len(sockets) :
          /\ upstreamSocket = s => (Len(sockets) < MaxSocketsReconnect /\ now < Horizon)
          /\ SocketClose(s)
    \/ ReconnectTimer
    \/ (now < Horizon /\ Tick(RECONNECT_DELAY_MS))

SpecReconnect ==
    /\ Start(None)
    /\ [][NextReconnect]_vars
    /\ WF_vars(ReconnectTimer)
    /\ WF_vars(now < Horizon /\ Tick(RECONNECT_DELAY_MS))

\* The tracked upstream socket is open or connecting
TrackedLive ==
    /\ upstreamSocket # 0
    /\ sockets[upstreamSocket].readyState \in {OPEN, CONNECTING}

\* C7: connectUpstream is idempotent: when the tracked upstream socket is open
\* or connecting, a call from a client attach, an /ais/snapshot request or a
\* reconnect timer creates no new socket and leaves the tracked reference and
\* all state other than the caller's own unchanged.
C7_ConnectIdempotent ==
    [][ TrackedLive =>
          /\ ClientConnect =>
                UNCHANGED <<connVars, messageCount, storeVars, snapVars, returned, response>>
          /\ (\E includeCandidates \in BOOLEAN : SnapshotRequest(includeCandidates)) =>
                UNCHANGED <<connVars, clientVars, messageCount, sent>>
          /\ ReconnectTimer =>
                /\ UNCHANGED <<upstreamSocket, sockets, clientVars, messageCount, storeVars,
                               snapVars, sent, returned, response>>
                /\ reconnectTimers' = Tail(reconnectTimers) ]_vars

\* One socket ever created, after a client attach and a request: the later of
\* the two calls found the tracked socket live
C7_Witness ==
    /\ TrackedLive
    /\ Len(sockets) = 1
    /\ clients # {}
    /\ response.status = 200

\* The step is the close event of the tracked upstream socket
TrackedClose ==
    /\ upstreamSocket # 0
    /\ SocketClose(upstreamSocket)

\* C8: when the tracked upstream socket closes, the tracked reference is
\* cleared and a reconnect is scheduled 5000 ms later; with timers that fire
\* when due, a lost connection leads to a new tracked connection attempt.
C8_CloseSchedulesReconnect ==
    /\ [][ TrackedClose =>
              /\ upstreamSocket' = 0
              /\ reconnectTimers' = Append(reconnectTimers, now + RECONNECT_DELAY_MS) ]_vars
    /\ ((upstreamSocket = 0 /\ sockets # <<>>) ~> (upstreamSocket # 0))

\* The connection was lost twice and regained twice by the timers alone: no
\* request was ever made and the only client attached once and is gone
C8_Witness ==
    /\ response.status = 0
    /\ clients = {}
    /\ Len(clientState) = 1
    /\ Len(sockets) = 3
    /\ sockets[1].readyState = CLOSED
    /\ sockets[2].readyState = CLOSED
    /\ upstreamSocket = 3
    /\ reconnectTimers = <<>>

----------------------------------------------------------------------------
(* SpecHist: one vessel reports again and again, in steps of twenty minutes, *)
(* while the snapshot timer sweeps.                                         *)

MaxMessagesHist == 11
MaxTicksHist == 2
TwentyMinutes == 20 * 60 * 1000

NextHist ==
    \/ (clientState = <<>> /\ ClientConnect)
    \/ \E s \in 1..Len(sockets) : SocketOpen(s)
    \/ /\ arrivalCount < MaxMessagesHist
       /\ \E s \in 1..Len(sockets) : SocketMessage(s, ReportA1)
    \/ SnapshotTimer
    \/ (now < MaxTicksHist * TwentyMinutes /\ Tick(TwentyMinutes))

SpecHist == Start(None) /\ [][NextHist]_vars

\* The last n elements of a sequence
LastN(seq, n) == IF Len(seq) <= n THEN seq ELSE SubSeq(seq, Len(seq) - n + 1, Len(seq))

HistoryOf(hist, mmsi) == IF mmsi \in DOMAIN hist THEN hist[mmsi] ELSE <<>>

\* C10: every PositionHistory holds at most 10 timestamps, and an ingestion
\* leaves the vessel's history as the newest 10 of its former timestamps
\* followed by the time of the report (on the 11th the oldest is dropped).
C10_HistoryKeepsNewestTen ==
    /\ [](\A mmsi \in DOMAIN vesselHistory : Len(vesselHistory[mmsi]) <= HISTORY_LIMIT)
    /\ [][ (TrackedMessage(ReportA1) /\ IsIngestible(ReportA1)) =>
              vesselHistory'[MMSI_A] =
                  LastN(Append(HistoryOf(vesselHistory, MMSI_A), now), HISTORY_LIMIT) ]_vars

\* Eleven reports and no sweep: the history holds ten, the first one is gone
C10_Witness ==
    /\ snapshotSequence = 0
    /\ messageCount = HISTORY_LIMIT + 1
    /\ MMSI_A \in DOMAIN vesselHistory
    /\ Len(vesselHistory[MMSI_A]) = HISTORY_LIMIT
    /\ vesselHistory[MMSI_A][1] > 0
    /\ vesselHistory[MMSI_A][HISTORY_LIMIT] = now

----------------------------------------------------------------------------
(* SpecChoke: vessels gather at the Strait of Hormuz.  The first vessel is  *)
(* at the centre (26.5, 56.5) and may report again; every other report      *)
(* comes from a vessel not seen before, on the radius (28.5, 56.5) or just  *)
(* outside it (29.0, 56.5).  An hour may pass, so that records go stale.    *)
(* All coordinates are multiples of half a degree, which JavaScript numbers *)
(* hold exactly.                                                            *)

MaxMessagesChoke == 6
MaxTicksChoke == 1
OneHour == 60 * 60 * 1000

\* The k-th vessel
VesselId(k) == <<2, 1, 1, 3, 4, 5, 6, k \div 10, k % 10>>

ChokeReport(k, lat) ==
    Report(Meta(VesselId(k), None, <<70>>, None, None),
           Pos(<<lat>>, <<DegHalf(56)>>, 0, 10, 0))

\* What may arrive next
ChokeMessages ==
    IF reportLog = <<>>
    THEN {ChokeReport(1, DegHalf(26))}
    ELSE {ChokeReport(Cardinality(DOMAIN reportLog) + 1, lat) : lat \in {DegHalf(28), Deg(29)}}
            \cup {ChokeReport(1, DegHalf(26))}

NextChoke ==
    \/ (upstreamSocket = 0 /\ SnapshotRequest(FALSE))
    \/ \E s \in 1..Len(sockets) : SocketOpen(s)
    \/ /\ arrivalCount < MaxMessagesChoke
       /\ \E s \in 1..Len(sockets), message \in ChokeMessages : SocketMessage(s, message)
    \/ SnapshotTimer
    \/ (now < MaxTicksChoke * OneHour /\ Tick(OneHour))

SpecChoke == Start(None) /\ [][NextChoke]_vars

\* The tracked vessels whose last report lies within the chokepoint's radius
\* (squared flat distance in degree space against the squared radius)
VesselsAt(tracked, chokepoint) ==
    {m \in tracked :
        LET data == reportLog[m].data
            dlat == Num(LatOf(data.MetaData, data.PositionReport)) - chokepoint.lat
            dlon == Num(LonOf(data.MetaData, data.PositionReport)) - chokepoint.lon
        IN  dlat * dlat + dlon * dlon <= chokepoint.radius * chokepoint.radius}

CongestionRecords(snapshot, chokepoint) ==
    {j \in 1..Len(snapshot.disruptions) :
        /\ snapshot.disruptions[j].type = "chokepoint_congestion"
        /\ snapshot.disruptions[j].name = chokepoint.name}

\* C11: a rebuilt snapshot holds at most one chokepoint_congestion record per
\* chokepoint; the record is there if and only if at least 5 distinct tracked
\* vessels have their latest position within the radius, and its vesselCount
\* is that number; 6 vessels at the Strait of Hormuz give severity low.
C11_OneRecordPerCongestedChokepoint ==
    [][ Rebuilt =>
          \A i \in 1..Len(CHOKEPOINTS) :
              LET records == CongestionRecords(lastSnapshot', CHOKEPOINTS[i])
                  n == Cardinality(VesselsAt(DOMAIN vessels', CHOKEPOINTS[i]))
              IN  /\ Cardinality(records) <= 1
                  /\ (records # {}) <=> (n >= 5)
                  /\ \A j \in records :
                        /\ lastSnapshot'.disruptions[j].vesselCount = n
                        /\ (i = 1 /\ n = 6) => lastSnapshot'.disruptions[j].severity = "low" ]_vars

\* Six vessels at the Strait of Hormuz, one of them on the radius, and one
\* record in the snapshot: vesselCount 6, severity low
C11_Witness ==
    /\ IsSnapshot(lastSnapshot)
    /\ Len(lastSnapshot.disruptions) = 1
    /\ lastSnapshot.disruptions[1].type = "chokepoint_congestion"
    /\ lastSnapshot.disruptions[1].name = "Strait of Hormuz"
    /\ lastSnapshot.disruptions[1].vesselCount = 6
    /\ lastSnapshot.disruptions[1].severity = "low"
    /\ \E m \in DOMAIN vessels : vessels[m].lat = DegHalf(28)

----------------------------------------------------------------------------
(* SpecSeverity: the chokepoint loop of detectDisruptions applied to a      *)
(* vessel store that holds count vessels at the centre of a chokepoint,     *)
(* for every chokepoint and every count up to a bound.                      *)

MaxCountSeverity == 80

\* A store of count vessels at the centre of the chokepoint
VesselsAtCentre(count, chokepoint) ==
    [m \in {VesselId(k) : k \in 1..count} |->
        VesselRecord(Absent, Meta(m, None, None, None, None), Pos(None, None, 0, 0, 0),
                     chokepoint.lat, chokepoint.lon, 0)]

InitSeverity ==
    /\ Loaded(None)
    /\ args \in [count : 0..MaxCountSeverity, chokepoint : 1..Len(CHOKEPOINTS)]
    /\ result = Absent

ApplyChokepointDisruption ==
    /\ result = Absent
    /\ result' = [value |-> ChokepointDisruption(
                                VesselsAtCentre(args.count, CHOKEPOINTS[args.chokepoint]),
                                CHOKEPOINTS[args.chokepoint])]
    /\ UNCHANGED <<programVars, args>>

NextSeverity == ApplyChokepointDisruption

SpecSeverity == InitSeverity /\ [][NextSeverity]_vars

\* p is x / y rounded to the nearest integer, a half rounding up (y > 0)
IsRounded(p, x, y) == 2 * (p * y - x) <= y /\ 2 * (x - p * y) < y

\* C12: the record of a chokepoint is a function of the vessel count and the
\* radius alone: none below 5 vessels; otherwise, with baseline = 10 x radius,
\* severity high above 1.5 x baseline, elevated above baseline, else low, and
\* changePct = round((count / baseline - 1) x 100).
C12_SeverityFromCountAndRadius ==
    result # Absent =>
        LET count == args.count
            records == result.value
            \* the radius is in tenths of a degree: 10 x radius in degrees
            baseline == CHOKEPOINTS[args.chokepoint].radius
        IN  IF count < 5
            THEN records = <<>>
            ELSE /\ Len(records) = 1
                 /\ records[1].vesselCount = count
                 /\ records[1].severity =
                        IF 2 * count > 3 * baseline THEN "high"
                        ELSE IF count > baseline THEN "elevated"
                        ELSE "low"
                 /\ IsRounded(records[1].changePct, (count - baseline) * 100, baseline)

\* 25 vessels at the Strait of Hormuz (radius 2, baseline 20): elevated, +25 %
C12_Witness ==
    /\ result # Absent
    /\ args.count = 25
    /\ args.chokepoint = 1
    /\ Len(result.value) = 1
    /\ result.value[1].severity = "elevated"
    /\ result.value[1].changePct = 25

----------------------------------------------------------------------------
(* SpecClassify: isLikelyMilitaryCandidate applied to metadata with         *)
(* identifiers of 8, 9 and 10 digits, names with and without a naval        *)
(* prefix, and ship types in and around the flagged ranges.                 *)

ClassifyIdentifiers ==
    { <<2, 1, 1, 3, 4, 5, 6, 7, 8>>,        \* 9 digits, neither pattern
      <<2, 1, 1, 0, 0, 5, 6, 7, 8>>,        \* 9 digits, "00" after the first three
      <<2, 1, 1, 9, 9, 5, 6, 7, 8>>,        \* 9 digits, "99" after the first three
      <<1, 1, 1, 0, 0, 2, 3, 4>>,           \* 8 digits
      <<1, 2, 3, 0, 0, 1, 2, 3, 4, 5>>,     \* 10 digits, "00" after the first three
      <<1, 2, 3, 4, 0, 0, 1, 2, 3, 4>>,     \* 10 digits, "00" six from the end
      <<>> }

ClassifyNames ==
    { <<>>, <<"E","V","E","R">>, <<" ","u","s","s"," ","X">>, <<"H","m","s">>,
      <<"M","U","S","S">>, <<"U","S">> }

ClassifyShipTypes == { <<>>, <<35>>, <<55>>, <<50>>, <<59>>, <<49>>, <<60>>, <<70>> }

InitClassify ==
    /\ Loaded(None)
    /\ args \in {Meta(mmsi, name, shipType, None, None) :
                    mmsi \in ClassifyIdentifiers, name \in ClassifyNames,
                    shipType \in ClassifyShipTypes}
    /\ result = Absent

ApplyIsLikelyMilitaryCandidate ==
    /\ result = Absent
    /\ result' = [value |-> isLikelyMilitaryCandidate(args)]
    /\ UNCHANGED <<programVars, args>>

NextClassify == ApplyIsLikelyMilitaryCandidate

SpecClassify == InitClassify /\ [][NextClassify]_vars

FlaggedShipType(shipType) ==
    shipType # <<>> /\ (shipType[1] \in {35, 55} \/ shipType[1] \in 50..59)

\* The name, leading blanks aside, begins with a naval prefix in any letter case
HasNavalPrefix(name) ==
    \E p \in NAVAL_PREFIXES :
        LET trimmed == TrimLeft(name)
        IN  /\ Len(trimmed) >= Len(p)
            /\ \A i \in 1..Len(p) : UpperChar(trimmed[i]) = p[i]

LastSix(mmsi) == SubSeq(mmsi, Len(mmsi) - 5, Len(mmsi))

\* C13: isLikelyMilitaryCandidate is true if and only if the ship type is 35,
\* 55 or in [50,59], or the trimmed name starts with a naval prefix in any
\* letter case, or the identifier has at least 9 digits and its last 6 digits
\* begin with 00 or 99.
C13_ClassifiedByTypeNameOrLastSix ==
    result # Absent =>
        ( result.value <=>
            \/ FlaggedShipType(args.ShipType)
            \/ HasNavalPrefix(args.ShipName)
            \/ /\ Len(args.MMSI) >= 9
               /\ SubSeq(LastSix(args.MMSI), 1, 2) \in {<<0, 0>>, <<9, 9>>} )

\* The same for the identifiers of exactly 9 digits and those too short
C13_ClassifiedNineDigits ==
    (result # Absent /\ Len(args.MMSI) <= 9) =>
        ( result.value <=>
            \/ FlaggedShipType(args.ShipType)
            \/ HasNavalPrefix(args.ShipName)
            \/ /\ Len(args.MMSI) >= 9
               /\ SubSeq(LastSix(args.MMSI), 1, 2) \in {<<0, 0>>, <<9, 9>>} )

----------------------------------------------------------------------------
(* SpecCandidate: two naval vessels, one flagged by its identifier and one  *)
(* by its name alone, report with their names and again, from another       *)
(* place, in reports that carry neither name nor ship type; time passes in  *)
(* steps of half an hour, past the 2 hours of the candidate retention.      *)

MaxMessagesCandidate == 2
MaxTicksCandidate == 5

\* The naval vessel of ReportB1 at (9.5, -79.0), without name and ship type
ReportB2 ==
    Report(Meta(MMSI_B, None, None, None, None),
           Pos(<<DegHalf(9)>>, <<0 - Deg(79)>>, 90, 5, 91))

\* The vessel of ReportA2, flagged by name alone, in the Strait of Hormuz
ReportC1 ==
    Report(Meta(MMSI_A, <<"H","M","S"," ","Y">>, None, None, None),
           Pos(<<DegHalf(26)>>, <<DegHalf(56)>>, 10, 8, 11))

CandidateMessages == {ReportB1, ReportB2, ReportC1, ReportA2}

NextCandidate ==
    \/ (upstreamSocket = 0 /\ SnapshotRequest(FALSE))
    \/ \E s \in 1..Len(sockets) : SocketOpen(s)
    \/ /\ arrivalCount < MaxMessagesCandidate
       /\ \E s \in 1..Len(sockets), message \in CandidateMessages : SocketMessage(s, message)
    \/ SnapshotTimer
    \/ (now < MaxTicksCandidate * HalfHour /\ Tick(HalfHour))

SpecCandidate == Start(None) /\ [][NextCandidate]_vars

CandidateOf(cands, mmsi) == cands[CHOOSE i \in 1..Len(cands) : cands[i].mmsi = mmsi]
HasCandidate(cands, mmsi) == \E i \in 1..Len(cands) : cands[i].mmsi = mmsi

\* C14: once a vessel has a CandidateReport, every later valid position report
\* of that vessel refreshes the CandidateReport to that report's position,
\* kinematics and time.
C14_CandidateRefreshedByEveryReport ==
    [][ \A message \in CandidateMessages :
          ( /\ TrackedMessage(message)
            /\ IsIngestible(message)
            /\ HasCandidate(candidateReports, MmsiOf(message.MetaData)) )
          => /\ HasCandidate(candidateReports', MmsiOf(message.MetaData))
             /\ LET report == CandidateOf(candidateReports', MmsiOf(message.MetaData))
                    meta == message.MetaData
                    pos == message.PositionReport
                IN  /\ report.lat = Num(LatOf(meta, pos))
                    /\ report.lon = Num(LonOf(meta, pos))
                    /\ report.heading = pos.TrueHeading
                    /\ report.speed = pos.Sog
                    /\ report.course = pos.Cog
                    /\ report.timestamp = now ]_vars

TwoHours == 2 * 60 * 60 * 1000

\* C15: a CandidateReport is kept until 2 hours after its last update, whatever
\* happens to the vessel's VesselRecord: a sweep removes it if and only if it
\* is older than 2 hours, and no other step removes it.
C15_CandidateKeptTwoHours ==
    [][ \A i \in 1..Len(candidateReports) :
          LET report == candidateReports[i]
              kept == HasCandidate(candidateReports', report.mmsi)
          IN  /\ Rebuilt => (~kept <=> now - report.timestamp > TwoHours)
              /\ ~Rebuilt => kept ]_vars

\* A sweep has dropped the vessel's VesselRecord and kept its CandidateReport,
\* which is more than 30 minutes old
C15_Witness ==
    /\ HasCandidate(candidateReports, MMSI_B)
    /\ MMSI_B \notin DOMAIN vessels
    /\ now - CandidateOf(candidateReports, MMSI_B).timestamp > DENSITY_WINDOW
    /\ lastSnapshotAt = now
    /\ IsSnapshot(lastSnapshot)
    /\ lastSnapshot.status.vessels = 0

----------------------------------------------------------------------------
(* The candidate list of GET /ais/snapshot?candidates=true, served from a    *)
(* registry that may hold more than MAX_CANDIDATE_REPORTS reports.  The      *)
(* initial state is the relay 110 minutes after a feed of naval vessels: a   *)
(* client connected and left, the upstream socket opened, every vessel       *)
(* reported in the first seconds, and the snapshot timer has just rebuilt,   *)
(* so the sweep has dropped the vessels, histories and cells and has kept    *)
(* the candidate registry.                                                   *)

MaxRegistrySmall == 20
MaxTicksServe == 2

TenMinutes == 10 * 60 * 1000
ServeStart == 110 * 60 * 1000

RegistrySizes ==
    (0..MaxRegistrySmall)
        \cup ((MAX_CANDIDATE_REPORTS - 1)..(MAX_CANDIDATE_REPORTS + 2))
RegistryOrders == {"Ascending", "FirstAgain", "SameInstant"}

\* A 9-digit identifier whose digits 4 and 5 are "00": every report classifies
RegistryId(k) ==
    <<2, 1, 1, 0, 0, k \div 1000, (k \div 100) % 10, (k \div 10) % 10, k % 10>>
RegistryReport(k) ==
    Report(Meta(RegistryId(k), None, None, None, None),
           Pos(<<Deg(0)>>, <<Deg(0)>>, 0, 10, 0))

\* When vessel k of n reported last: one report a millisecond, then the first
\* vessel again, or all in the same millisecond
RegistryTime(order, n, k) ==
    IF order = "SameInstant" THEN 1
    ELSE IF order = "FirstAgain" /\ k = 1 THEN n + 1
    ELSE k

\* candidateReports after the feed: the Map keeps the order of first insertion
Registry(order, n) ==
    [k \in 1..n |->
        LET data == RegistryReport(k)
        IN  CandidateReport(data.MetaData, data.PositionReport, Deg(0), Deg(0),
                            RegistryTime(order, n, k))]

RegistryLog(order, n) ==
    [mmsi \in {RegistryId(k) : k \in 1..n} |->
        LET k == mmsi[6] * 1000 + mmsi[7] * 100 + mmsi[8] * 10 + mmsi[9]
        IN  [at |-> RegistryTime(order, n, k),
             prev |-> IF order = "FirstAgain" /\ k = 1 THEN <<1>> ELSE <<>>,
             data |-> RegistryReport(k)]]

RegistryMessages(order, n) == IF order = "FirstAgain" /\ n > 0 THEN n + 1 ELSE n

InitServe ==
    \E order \in RegistryOrders, n \in RegistrySizes :
        /\ now = ServeStart
        /\ SNAPSHOT_INTERVAL_MS = SnapshotInterval(None)
        /\ upstreamSocket = 1
        /\ sockets = <<[readyState |-> OPEN, subscribed |-> 1, errors |-> 0]>>
        /\ reconnectTimers = <<>>
        /\ clients = {}
        /\ clientState = <<CLOSED>>
        /\ messageCount = RegistryMessages(order, n)
        /\ vessels = <<>>
        /\ vesselHistory = <<>>
        /\ densityGrid = <<>>
        /\ candidateReports = Registry(order, n)
        /\ snapshotSequence = 1
        /\ lastSnapshot =
               [sequence |-> 1,
                timestamp |-> ServeStart,
                status |-> [connected |-> TRUE, vessels |-> 0,
                            messages |-> RegistryMessages(order, n), clients |-> 0],
                disruptions |-> detectDisruptions(<<>>, <<>>, ServeStart),
                density |-> calculateDensityZones(<<>>)]
        /\ lastSnapshotAt = ServeStart
        /\ sent = << <<>> >>
        /\ arrivalCount = RegistryMessages(order, n)
        /\ reportLog = RegistryLog(order, n)
        /\ returned = lastSnapshot
        /\ response = [route |-> "", status |-> 0]
        /\ running = TRUE /\ ProxyLoaded /\ CyberLoaded
        /\ args = Absent
        /\ result = Absent

NextServe ==
    \/ SnapshotRequest(TRUE)
    \/ SnapshotRequest(FALSE)
    \/ (now < ServeStart + MaxTicksServe * TenMinutes /\ Tick(TenMinutes))

SpecServe == InitServe /\ [][NextServe]_vars

\* C16: the candidate list served by /ais/snapshot?candidates=true is sorted
\* newest-first and holds at most 1,500 entries, each of them a report of the
\* live registry; the entries it leaves out are the least recently updated
\* ones, and the live registry itself loses nothing but what the sweep expires.
C16_CandidateListNewestFirstCapped ==
    [][ SnapshotRequest(TRUE) =>
          LET served == response'.candidateReports
              live == candidateReports'
              unexpired == {candidateReports[i] : i \in
                               {j \in 1..Len(candidateReports) :
                                   now - candidateReports[j].timestamp <= TwoHours}}
              omitted == Range(live) \ Range(served)
          IN  /\ Len(served) = Min2(Len(live), MAX_CANDIDATE_REPORTS)
              /\ \A i \in 1..(Len(served) - 1) :
                     served[i].timestamp >= served[i + 1].timestamp
              /\ Range(served) \subseteq Range(live)
              /\ Cardinality(Range(served)) = Len(served)
              /\ \A report \in omitted :
                     report.timestamp <= served[Len(served)].timestamp
              /\ unexpired \subseteq Range(live) ]_vars

\* A registry of more than 1,500 reports whose oldest entry was updated last
\* has been served: 1,500 entries, that entry first, the registry still whole
C16_Witness ==
    /\ response.route = "/ais/snapshot"
    /\ Len(candidateReports) > MAX_CANDIDATE_REPORTS
    /\ Len(response.candidateReports) = MAX_CANDIDATE_REPORTS
    /\ candidateReports[1].timestamp > candidateReports[2].timestamp
    /\ response.candidateReports[1] = candidateReports[1]

----------------------------------------------------------------------------
(* Density zones of a grid that may hold more than MAX_DENSITY_ZONES         *)
(* qualifying cells.  The initial state is the relay one second after a feed *)
(* of position reports: a client connected and left, the upstream socket     *)
(* opened, the vessels of cell i reported in millisecond i, and no snapshot  *)
(* has been built yet.                                                       *)

MaxGridSmall == 8
MaxTicksZones == 2

CellsPerRow == 20
ZonesStart == 1000

GridSizes ==
    (0..MaxGridSmall)
        \cup ((MAX_DENSITY_ZONES - 1)..(MAX_DENSITY_ZONES + 2))
        \cup {MAX_DENSITY_ZONES + MAX_DENSITY_ZONES \div 2 + 2}
GridOccupancies == {"Pairs", "LastBusiest", "Mixed"}

\* How many vessels report from cell i of n
Occupancy(occupancy, n, i) ==
    IF occupancy = "Pairs" THEN 2
    ELSE IF occupancy = "LastBusiest" THEN (IF i = n THEN 3 ELSE 2)
    ELSE 1 + (i % 3)

\* Vessel j of cell i; digits 4 and 5 are neither "00" nor "99"
GridVesselId(i, j) == <<2, 1, 1, 3, (i \div 100) % 10, (i \div 10) % 10, i % 10, 0, j>>
CellOfVessel(mmsi) == mmsi[5] * 100 + mmsi[6] * 10 + mmsi[7]

\* The middle of cell i, in tenths of a degree
GridLat(i) == Deg(2 * (i \div CellsPerRow) + 1)
GridLon(i) == Deg(2 * (i % CellsPerRow) + 1)

GridReport(i, j) ==
    Report(Meta(GridVesselId(i, j), None, None, None, None),
           Pos(<<GridLat(i)>>, <<GridLon(i)>>, 0, 10, 0))

GridVessels(occupancy, n) ==
    {GridVesselId(i, j) : <<i, j>> \in
        {c \in (1..n) \X (1..3) : c[2] <= Occupancy(occupancy, n, c[1])}}

\* densityGrid after the feed: the Map keeps the order of first insertion
Grid(occupancy, n) ==
    [i \in 1..n |->
        [key |-> getGridKey(GridLat(i), GridLon(i)),
         lat |-> FloorGrid(GridLat(i)) + GRID_SIZE \div 2,
         lon |-> FloorGrid(GridLon(i)) + GRID_SIZE \div 2,
         vessels |-> {GridVesselId(i, j) : j \in 1..Occupancy(occupancy, n, i)},
         lastUpdate |-> i,
         previousCount |-> 0]]

InitZones ==
    \E occupancy \in GridOccupancies, n \in GridSizes :
        LET ids == GridVessels(occupancy, n)
        IN  /\ now = ZonesStart
            /\ SNAPSHOT_INTERVAL_MS = SnapshotInterval(None)
            /\ upstreamSocket = 1
            /\ sockets = <<[readyState |-> OPEN, subscribed |-> 1, errors |-> 0]>>
            /\ reconnectTimers = <<>>
            /\ clients = {}
            /\ clientState = <<CLOSED>>
            /\ messageCount = Cardinality(ids)
            /\ vessels =
                   [mmsi \in ids |->
                       LET i == CellOfVessel(mmsi)
                           data == GridReport(i, mmsi[9])
                       IN  VesselRecord(Absent, data.MetaData, data.PositionReport,
                                        GridLat(i), GridLon(i), i)]
            /\ vesselHistory = [mmsi \in ids |-> <<CellOfVessel(mmsi)>>]
            /\ densityGrid = Grid(occupancy, n)
            /\ candidateReports = <<>>
            /\ snapshotSequence = 0
            /\ lastSnapshot = NoSnapshot
            /\ lastSnapshotAt = 0
            /\ sent = << <<>> >>
            /\ arrivalCount = Cardinality(ids)
            /\ reportLog =
                   [mmsi \in ids |->
                       [at |-> CellOfVessel(mmsi), prev |-> <<>>,
                        data |-> GridReport(CellOfVessel(mmsi), mmsi[9])]]
            /\ returned = NoSnapshot
            /\ response = [route |-> "", status |-> 0]
            /\ running = TRUE /\ ProxyLoaded /\ CyberLoaded
            /\ args = Absent
            /\ result = Absent

NextZones ==
    \/ SnapshotTimer
    \/ SnapshotRequest(FALSE)
    \/ (now < ZonesStart + MaxTicksZones * TwentyMinutes /\ Tick(TwentyMinutes))

SpecZones == InitZones /\ [][NextZones]_vars

QualifyingCells(grid) == {i \in 1..Len(grid) : Cardinality(grid[i].vessels) >= 2}

\* C17: every density zone of a rebuilt snapshot is the zone of a cell with at
\* least 2 occupants and carries shipsPerDay = occupants x 48; at most 200
\* zones are returned, one per cell, as many as there are qualifying cells up
\* to that cap; and no qualifying cell left out has more occupants than a
\* returned one.
C17_ZonesFromBusiestCells ==
    [][ Rebuilt =>
          LET zones == lastSnapshot'.density
              grid == densityGrid'
              qualifying == QualifyingCells(grid)
              ids == {zones[z].id : z \in 1..Len(zones)}
              least == IF zones = <<>> THEN 0 ELSE zones[Len(zones)].shipsPerDay
          IN  /\ Len(zones) <= MAX_DENSITY_ZONES
              /\ Len(zones) = Min2(Cardinality(qualifying), MAX_DENSITY_ZONES)
              /\ Cardinality(ids) = Len(zones)
              /\ \A z \in 1..Len(zones) :
                     /\ \E i \in qualifying :
                            /\ grid[i].key = zones[z].id
                            /\ zones[z].shipsPerDay = Cardinality(grid[i].vessels) * 48
                     /\ zones[z].shipsPerDay >= least
              /\ \A i \in qualifying :
                     grid[i].key \notin ids
                         => Cardinality(grid[i].vessels) * 48 <= least ]_vars

\* A grid of more than 200 qualifying cells whose last cell is the busiest has
\* been rebuilt: 200 zones, the last cell's zone first
C17_Witness ==
    /\ IsSnapshot(lastSnapshot)
    /\ lastSnapshotAt = now
    /\ Cardinality(QualifyingCells(densityGrid)) > MAX_DENSITY_ZONES
    /\ Len(lastSnapshot.density) = MAX_DENSITY_ZONES
    /\ lastSnapshot.density[1].id = densityGrid[Len(densityGrid)].key
    /\ lastSnapshot.density[1].shipsPerDay = 3 * 48
    /\ lastSnapshot.density[MAX_DENSITY_ZONES].shipsPerDay = 2 * 48

----------------------------------------------------------------------------
(* Messages that ingestion discards *)

MaxClientsDiscard == 2
MaxMessagesDiscard == 3

\* PositionReport messages that an early return of ingestion discards
NoIdentifier ==
    Report(Meta(<<>>, None, None, None, None),
           Pos(<<DegHalf(26)>>, <<DegHalf(56)>>, 0, 10, 0))
NoLatitude ==
    Report(Meta(MMSI_A, None, None, None, <<DegHalf(56)>>),
           Pos(None, <<DegHalf(56)>>, 0, 10, 0))
NoLongitude ==
    Report(Meta(MMSI_B, None, None, <<DegHalf(26)>>, None),
           Pos(<<DegHalf(26)>>, None, 0, 10, 0))
NoBody ==
    [ok |-> TRUE, MessageType |-> "PositionReport",
     MetaData |-> Meta(MMSI_A, None, None, None, None), PositionReport |-> Absent]
\* The position comes from the metadata: ingested
MetaPosition ==
    Report(Meta(MMSI_B, None, None, <<DegHalf(26)>>, <<DegHalf(56)>>),
           Pos(None, None, 0, 10, 0))

DiscardMessages ==
    {Malformed, Undecodable, StaticData, NoIdentifier, NoLatitude, NoLongitude,
     NoBody, MetaPosition, ReportA1}

NextDiscard ==
    \/ (Len(clientState) < MaxClientsDiscard /\ ClientConnect)
    \/ \E c \in 1..Len(clientState) : ClientClose(c)
    \/ \E s \in 1..Len(sockets) : SocketOpen(s)
    \/ /\ arrivalCount < MaxMessagesDiscard
       /\ \E s \in 1..Len(sockets), message \in DiscardMessages : SocketMessage(s, message)

SpecDiscard == Start(None) /\ [][NextDiscard]_vars

\* The message fails JSON parsing, is not a position report, or is a position
\* report with an empty identifier or a coordinate that is not finite
Discarded(message) ==
    \/ ~message.ok
    \/ message.MessageType # "PositionReport"
    \/ /\ Has(message.MetaData)
       /\ Has(message.PositionReport)
       /\ \/ MmsiOf(message.MetaData) = <<>>
          \/ ~IsFinite(LatOf(message.MetaData, message.PositionReport))
          \/ ~IsFinite(LonOf(message.MetaData, message.PositionReport))

\* The message has gone to every client that is OPEN, as it arrived
RebroadcastUnmodified(message) ==
    \A c \in DOMAIN sent :
        sent'[c] = IF c \in Recipients
                   THEN Append(sent[c], [n |-> arrivalCount', raw |-> message])
                   ELSE sent[c]

\* C18: an upstream message that fails JSON parsing, is not a position report,
\* or is a position report with an empty identifier or non-finite coordinates
\* leaves the vessel, history, grid and candidate stores unchanged and is
\* rebroadcast unmodified to the downstream clients.
C18_DiscardedStillRebroadcast ==
    [][ \A message \in DiscardMessages :
          (TrackedMessage(message) /\ Discarded(message))
              => (UNCHANGED storeVars /\ RebroadcastUnmodified(message)) ]_vars

\* The same for the messages whose payload is valid UTF-8
C18_DecodableDiscardedStillRebroadcast ==
    [][ \A message \in DiscardMessages :
          (TrackedMessage(message) /\ Discarded(message) /\ toString(message) = message)
              => (UNCHANGED storeVars /\ RebroadcastUnmodified(message)) ]_vars

----------------------------------------------------------------------------
(* A fault raised while a snapshot is rebuilt.  buildSnapshot, its callees,  *)
(* the /ais/snapshot branch of the request handler and the timer callback    *)
(* hold no try/catch, and no handler is registered on process: the exception *)
(* leaves the async request handler as an unhandled rejection, which ends    *)
(* the process or only warns, depending on the runtime's default, and leaves *)
(* the timer callback as an uncaught exception, which ends the process.      *)

MaxMessagesFault == 1
MaxTicksFault == 2
MaxBuildsFault == 3

\* Where the fault is raised: on entry to cleanupAggregates; in the snapshot
\* literal (detectDisruptions, calculateDensityZones), after the sweep and
\* snapshotSequence++; in the handler after buildSnapshot has returned
\* (getCandidateReportsSnapshot, JSON.stringify), before res.end is called
BuildStages == {"sweep", "detector"}
RequestStages == BuildStages \cup {"serialization"}

\* buildSnapshot() throws at the stage: what it has done by then
buildSnapshotThrows(stage) ==
    /\ ~Debounced
    /\ IF stage = "sweep"
       THEN UNCHANGED <<storeVars, snapVars>>
       ELSE /\ cleanupAggregates
            /\ snapshotSequence' = NextSequence(snapshotSequence)
            /\ UNCHANGED <<lastSnapshot, lastSnapshotAt>>
    /\ UNCHANGED returned

\* GET /ais/snapshot with a fault at the stage: no res.end, so no response
SnapshotRequestFails(stage, exits) ==
    /\ connectUpstream
    /\ IF stage = "serialization"
       THEN buildSnapshot(IsConnected(upstreamSocket', sockets'))
       ELSE buildSnapshotThrows(stage)
    /\ response' = [route |-> "/ais/snapshot", status |-> 0]
    /\ running' = ~exits
    /\ UNCHANGED <<now, SNAPSHOT_INTERVAL_MS, sideVars, reconnectTimers, clientVars, messageCount,
                   sent, arrivalCount, reportLog>>

\* One firing of the timer callback with a fault at the stage
SnapshotTimerFails(stage) ==
    /\ IsConnected(upstreamSocket, sockets) \/ DOMAIN vessels # {}
    /\ buildSnapshotThrows(stage)
    /\ running' = FALSE
    /\ UNCHANGED <<now, SNAPSHOT_INTERVAL_MS, sideVars, connVars, clientVars, messageCount,
                   sent, arrivalCount, reportLog, response>>

\* A /health that starts the upstream connection
HealthRequestConnecting ==
    /\ connectUpstream
    /\ response' = [route |-> "/health", status |-> 200,
                    clients |-> Cardinality(clients),
                    messages |-> messageCount,
                    connected |-> IsConnected(upstreamSocket, sockets),
                    vessels |-> Cardinality(DOMAIN vessels),
                    densityZones |-> Cardinality(QualifyingCells(densityGrid))]
    /\ UNCHANGED <<now, SNAPSHOT_INTERVAL_MS, sideVars, running, reconnectTimers, clientVars,
                   messageCount, storeVars, snapVars, sent, arrivalCount, reportLog, returned>>

\* GET /health
HealthRequest ==
    /\ response' = [route |-> "/health", status |-> 200,
                    clients |-> Cardinality(clients),
                    messages |-> messageCount,
                    connected |-> IsConnected(upstreamSocket, sockets),
                    vessels |-> Cardinality(DOMAIN vessels),
                    densityZones |-> Cardinality(QualifyingCells(densityGrid))]
    /\ UNCHANGED <<now, SNAPSHOT_INTERVAL_MS, sideVars, running, connVars, clientVars, messageCount,
                   storeVars, snapVars, sent, arrivalCount, reportLog, returned>>

\* A request after the process has exited: nothing answers
RequestUnanswered(route) ==
    /\ ~running
    /\ response' = [route |-> route, status |-> 0]
    /\ UNCHANGED <<now, SNAPSHOT_INTERVAL_MS, sideVars, running, connVars, clientVars, messageCount,
                   storeVars, snapVars, sent, arrivalCount, reportLog, returned>>

NextFault ==
    \/ (running /\ SnapshotRequest(FALSE))
    \/ /\ running
       /\ snapshotSequence < MaxBuildsFault
       /\ \E stage \in RequestStages, exits \in BOOLEAN : SnapshotRequestFails(stage, exits)
    \/ (running /\ \E s \in 1..Len(sockets) : SocketOpen(s))
    \/ /\ running
       /\ arrivalCount < MaxMessagesFault
       /\ \E s \in 1..Len(sockets) : SocketMessage(s, ReportA1)
    \/ (running /\ SnapshotTimer)
    \/ /\ running
       /\ snapshotSequence < MaxBuildsFault
       /\ \E stage \in BuildStages : SnapshotTimerFails(stage)
    \/ (running /\ HealthRequest)
    \/ (running /\ now < MaxTicksFault * HalfHour /\ Tick(HalfHour))
    \/ \E route \in {"/health", "/ais/snapshot"} : RequestUnanswered(route)

SpecFault == Start(None) /\ [][NextFault]_vars

\* C19: when a snapshot rebuild raises a fault, /ais/snapshot still answers 200
\* with the previously cached snapshot and /health still answers 200; no
\* request is left with an error response or without a response.
C19_FaultServesCachedSnapshot ==
    [][ /\ (\E stage \in RequestStages, exits \in BOOLEAN : SnapshotRequestFails(stage, exits))
            => (response'.status = 200 /\ response'.snapshot = lastSnapshot)
        /\ (response' # response /\ response'.route = "/health")
            => response'.status = 200 ]_vars

\* While the process runs, and whatever faults the rebuilds have raised,
\* /health answers 200
C19_HealthAnswersWhileRunning ==
    [][ HealthRequest => (running /\ response'.status = 200) ]_vars

----------------------------------------------------------------------------
(* The /rss and /opensky proxies, applied on their own to what the upstream  *)
(* does.  An upstream reply is a response with a status code, a redirect, a  *)
(* request 'error', a request 'timeout' or a body that fails to decompress.  *)

MaxRedirectsProxy == 5

Reply(kind, code) == [kind |-> kind, code |-> code]
UpstreamStatuses == {200, 401, 404, 429, 500, 503}
FinalReplies ==
    {Reply("response", code) : code \in UpstreamStatuses}
        \cup {Reply("error", 0), Reply("timeout", 0), Reply("corrupt", 0)}

\* getOpenSkyToken(): a token, or null for missing credentials, a token
\* response without access_token or that does not parse, a request error, a
\* timeout
TokenOutcomes == {"token", "unconfigured", "refused", "unparsable", "error", "timeout"}
getOpenSkyToken(outcome) == IF outcome = "token" THEN <<"token">> ELSE <<>>

\* res.writeHead(statusCode, ...); res.end(JSON.stringify({ error: ... }))
sendError(statusCode) == [status |-> statusCode, body |-> "error"]
\* res.writeHead(response.statusCode, ...); res.end(data)
PassThrough(reply) == [status |-> reply.code, body |-> "upstream"]

\* upstream[k] is what the k-th fetch of the chain meets
\* A variant of fetchChain that refuses the chain one redirect later
RECURSIVE fetchChainFourRedirects(_, _)
fetchChainFourRedirects(upstream, redirectCount) ==
    IF redirectCount > 4 THEN [answer |-> sendError(502), fetched |-> 0]
    ELSE LET reply == upstream[redirectCount + 1]
         IN  IF reply.kind = "redirect"
             THEN LET rest == fetchChainFourRedirects(upstream, redirectCount + 1)
                  IN  [answer |-> rest.answer, fetched |-> rest.fetched + 1]
             ELSE [answer |-> IF reply.kind = "corrupt" THEN sendError(502)
                              ELSE IF reply.kind = "error" THEN sendError(502)
                              ELSE IF reply.kind = "timeout" THEN sendError(504)
                              ELSE PassThrough(reply),
                   fetched |-> 1]

\* fetchWithRedirects of the /rss handler with the outbound requests it
\* makes: answer is the response written to the client, fetched the number
\* of protocol.get calls of the chain. upstream[k] is the reply to the k-th
\* outbound request; a "redirect" reply is one with a redirect status and a
\* location header.
RECURSIVE fetchChain(_, _)
fetchChain(upstream, redirectCount) ==
    IF redirectCount > 3 THEN [answer |-> sendError(502), fetched |-> 0]
    ELSE LET reply == upstream[redirectCount + 1]
         IN  IF reply.kind = "redirect"
             THEN LET rest == fetchChain(upstream, redirectCount + 1)
                  IN  [answer |-> rest.answer, fetched |-> rest.fetched + 1]
             ELSE [answer |-> IF reply.kind = "corrupt" THEN sendError(502)
                              ELSE IF reply.kind = "error" THEN sendError(502)
                              ELSE IF reply.kind = "timeout" THEN sendError(504)
                              ELSE PassThrough(reply),
                   fetched |-> 1]

\* The response fetchWithRedirects writes to the client
fetchWithRedirects(upstream, redirectCount) == fetchChain(upstream, redirectCount).answer

\* The handlers of the https.get of handleOpenSkyRequest
FlightDataReply(reply) ==
    IF reply.kind = "error" THEN sendError(500)
    ELSE IF reply.kind = "timeout" THEN sendError(504)
    ELSE PassThrough(reply)

handleOpenSkyRequest(token, reply) ==
    IF getOpenSkyToken(token) = <<>> THEN sendError(503) ELSE FlightDataReply(reply)

\* r redirects, then a final reply
Chain(r, final) == [k \in 1..(r + 1) |-> IF k <= r THEN Reply("redirect", 0) ELSE final]

ProxyRequests ==
    {[route |-> "/rss", upstream |-> Chain(r, final)] :
        r \in 0..MaxRedirectsProxy, final \in FinalReplies}
        \cup {[route |-> "/opensky", token |-> token, upstream |-> final] :
                 token \in TokenOutcomes, final \in FinalReplies \ {Reply("corrupt", 0)}}

InitProxy == Loaded(None) /\ args \in ProxyRequests /\ result = Absent

ApplyRss ==
    /\ result = Absent
    /\ args.route = "/rss"
    /\ result' = [value |-> fetchWithRedirects(args.upstream, 0),
                   fetched |-> fetchChain(args.upstream, 0).fetched]
    /\ UNCHANGED <<programVars, args>>

ApplyOpenSky ==
    /\ result = Absent
    /\ args.route = "/opensky"
    /\ result' = [value |-> handleOpenSkyRequest(args.token, args.upstream)]
    /\ UNCHANGED <<programVars, args>>

NextProxy == ApplyRss \/ ApplyOpenSky

SpecProxy == InitProxy /\ [][NextProxy]_vars

\* The fetches the handler makes for the request, in order
Fetches(request) ==
    IF request.route = "/rss"
    THEN LET firstFinal == CHOOSE k \in 1..Len(request.upstream) :
                               /\ request.upstream[k].kind # "redirect"
                               /\ \A j \in 1..(k - 1) : request.upstream[j].kind = "redirect"
         IN  SubSeq(request.upstream, 1, Min2(firstFinal, 4))
    ELSE IF request.token = "token" THEN <<request.upstream>> ELSE <<>>

\* The upstream fetch behind the request fails or times out: the token is not
\* acquired, or a fetch ends in an error, a timeout or a body that does not
\* decompress, or the redirects do not end
UpstreamFails(request) ==
    \/ request.route = "/opensky" /\ request.token # "token"
    \/ \E k \in 1..Len(Fetches(request)) :
           Fetches(request)[k].kind \in {"error", "timeout", "corrupt"}
    \/ /\ request.route = "/rss"
       /\ \A k \in 1..Len(Fetches(request)) : Fetches(request)[k].kind = "redirect"

\* C20: when the upstream fetch behind /rss or /opensky fails or times out
\* (feed fetch, token acquisition or flight-data fetch), the caller receives a
\* JSON {error} body whose status is 502, 503 or 504, never another status.
C20_UpstreamFailureIsBadGatewayClass ==
    (result # Absent /\ UpstreamFails(args))
        => (result.value.body = "error" /\ result.value.status \in {502, 503, 504})

\* The same with 500 among the statuses
C20_UpstreamFailureIsServerError ==
    (result # Absent /\ UpstreamFails(args))
        => (result.value.body = "error" /\ result.value.status \in {500, 502, 503, 504})

\* What /rss alone answers to a failing feed fetch
C20_RssFailureIsBadGatewayClass ==
    (result # Absent /\ UpstreamFails(args) /\ args.route = "/rss")
        => (result.value.body = "error" /\ result.value.status \in {502, 504})

\* The number of redirect replies the upstream gives before its first other
\* reply
RedirectsOffered(upstream) ==
    Cardinality({k \in 1..Len(upstream) :
                    \A j \in 1..k : upstream[j].kind = "redirect"})

\* C23: for one /rss request at most 3 redirects are followed: the chain of
\* outbound fetches ends after the original fetch and at most three more, a
\* chain of up to three redirects is answered from the reply that ends it, and
\* a further redirect after the third is answered 502 with a JSON error
\* instead of being followed.
C23_AtMostThreeRedirectsFollowed ==
    (result # Absent /\ args.route = "/rss")
        => LET offered == RedirectsOffered(args.upstream)
               followed == result.fetched - 1
           IN  /\ followed = Min2(offered, 3)
               /\ offered > 3 => result.value = sendError(502)
               /\ offered <= 3 =>
                      result.value = fetchWithRedirects(<<args.upstream[offered + 1]>>, 0)

\* A feed that redirects four times was followed three times and answered 502
C23_Witness ==
    /\ result # Absent
    /\ args.route = "/rss"
    /\ RedirectsOffered(args.upstream) = 4
    /\ result.fetched = 4
    /\ result.value.status = 502

----------------------------------------------------------------------------
(* The other routes of the HTTP server as steps of the process: OPTIONS,     *)
(* /rss and /opensky.  An /opensky request is answered in up to three steps: *)
(* the request arrives, the token response arrives, the flight-data response *)
(* arrives; requests overlap freely.                                         *)

\* What the AIS side of the relay holds
aisVars == <<SNAPSHOT_INTERVAL_MS, connVars, clientVars, messageCount, storeVars, snapVars,
             sent, arrivalCount, reportLog, returned>>

\* if (req.method === 'OPTIONS') { res.writeHead(204); return res.end(); }
OptionsRequest ==
    /\ response' = [route |-> "OPTIONS", status |-> 204]
    /\ UNCHANGED <<now, aisVars, running, sideVars>>

\* GET /rss: url is missing, names a host that is not allowed, or is fetched
RssRequest(feed, upstream) ==
    /\ response' =
           IF feed = "missing" THEN [route |-> "/rss", status |-> 400, body |-> "error"]
           ELSE IF feed = "disallowed" THEN [route |-> "/rss", status |-> 403, body |-> "error"]
           ELSE [route |-> "/rss"] @@ fetchWithRedirects(upstream, 0)
    /\ UNCHANGED <<now, aisVars, running, sideVars>>

OpenSkyCall(stage, token) == [stage |-> stage, token |-> token]
OpenSkyResponse(call, answer) == [route |-> "/opensky", call |-> call] @@ answer

\* A cache test that asks for two minutes to expiry
TokenCachedWideBuffer == openskyToken # <<>> /\ now < openskyTokenExpiry - 120000

\* openskyToken && Date.now() < openskyTokenExpiry - 60000
TokenCached == openskyToken # <<>> /\ now < openskyTokenExpiry - 60000

\* GET /opensky arrives: getOpenSkyToken() returns null or the cached token,
\* or sends the token request
OpenSkyRequest ==
    LET call == Len(openskyCalls) + 1
    IN  /\ IF ~openskyCredentials
           THEN /\ openskyCalls' = Append(openskyCalls, OpenSkyCall("done", <<>>))
                /\ response' = OpenSkyResponse(call, sendError(503))
                /\ UNCHANGED tokenRequests
           ELSE IF TokenCached
           THEN /\ openskyCalls' = Append(openskyCalls, OpenSkyCall("fetch", openskyToken))
                /\ UNCHANGED <<response, tokenRequests>>
           ELSE /\ openskyCalls' = Append(openskyCalls, OpenSkyCall("token", <<>>))
                /\ tokenRequests' = tokenRequests + 1
                /\ UNCHANGED response
        /\ UNCHANGED <<now, aisVars, running, callVars, cyberVars, openskyToken, openskyTokenExpiry,
                       openskyCredentials>>

\* The token request of the call ends: with an access_token that expires in
\* expiresIn seconds (0: the field is missing), or in a failure; the handler
\* then sends the flight-data request or answers 503
TokenResponse(call, outcome, expiresIn) ==
    /\ openskyCalls[call].stage = "token"
    /\ IF getOpenSkyToken(outcome) # <<>>
       THEN /\ openskyToken' = <<call>>
            /\ openskyTokenExpiry' = now + (IF expiresIn = 0 THEN 1800 ELSE expiresIn) * 1000
            /\ openskyCalls' = [openskyCalls EXCEPT ![call] = OpenSkyCall("fetch", <<call>>)]
            /\ UNCHANGED response
       ELSE /\ openskyCalls' = [openskyCalls EXCEPT ![call].stage = "done"]
            /\ response' = OpenSkyResponse(call, sendError(503))
            /\ UNCHANGED <<openskyToken, openskyTokenExpiry>>
    /\ UNCHANGED <<now, aisVars, running, callVars, cyberVars, tokenRequests, openskyCredentials>>

\* The flight-data request of the call ends.  After a timeout the handler
\* destroys the request; where the runtime answers that with an 'error' event,
\* the error handler's writeHead throws on the response already sent and the
\* process exits (exits).
FlightResponse(call, reply, exits) ==
    /\ openskyCalls[call].stage = "fetch"
    /\ exits => reply.kind = "timeout"
    /\ openskyCalls' = [openskyCalls EXCEPT ![call].stage = "done"]
    /\ response' = OpenSkyResponse(call, FlightDataReply(reply))
    /\ IF reply.kind = "response" /\ reply.code = 401
       THEN openskyToken' = <<>> /\ openskyTokenExpiry' = 0
       ELSE UNCHANGED <<openskyToken, openskyTokenExpiry>>
    /\ running' = (running /\ ~exits)
    /\ UNCHANGED <<now, aisVars, callVars, cyberVars, tokenRequests, openskyCredentials>>

----------------------------------------------------------------------------
(* Lazy start of the upstream connection *)

MaxSocketsLazy == 2

LazyReplies == {Reply("response", 200), Reply("error", 0)}

NextLazy ==
    \/ (Len(sockets) < MaxSocketsLazy /\ response.route # "/ais/snapshot" /\ SnapshotRequest(FALSE))
    \/ (Len(sockets) < MaxSocketsLazy /\ clientState = <<>> /\ ClientConnect)
    \/ \E s \in 1..Len(sockets) : SocketOpen(s)
    \/ \E s \in 1..Len(sockets) : SocketClose(s)
    \/ (Len(sockets) < MaxSocketsLazy /\ ReconnectTimer)
    \/ (now = 0 /\ Tick(RECONNECT_DELAY_MS))
    \/ HealthRequest
    \/ OptionsRequest
    \/ \E feed \in {"missing", "disallowed", "allowed"} :
           RssRequest(feed, <<Reply("response", 200)>>)
    \/ (openskyCalls = <<>> /\ OpenSkyRequest)
    \/ \E call \in 1..Len(openskyCalls) : TokenResponse(call, "token", 0)
    \/ \E call \in 1..Len(openskyCalls), reply \in LazyReplies :
           FlightResponse(call, reply, FALSE)

SpecLazy == Start(None) /\ [][NextLazy]_vars

\* A step of a route that is not /ais/snapshot
OtherRoute ==
    \/ HealthRequest
    \/ OptionsRequest
    \/ \E feed \in {"missing", "disallowed", "allowed"} :
           RssRequest(feed, <<Reply("response", 200)>>)
    \/ OpenSkyRequest
    \/ \E call \in 1..Len(openskyCalls) : TokenResponse(call, "token", 0)
    \/ \E call \in 1..Len(openskyCalls), reply \in LazyReplies :
           FlightResponse(call, reply, FALSE)

\* C21: an upstream connection attempt is made only by a downstream client
\* attaching, an /ais/snapshot request or a reconnect timer, never by /health,
\* /rss, /opensky or OPTIONS; and after every /ais/snapshot request a tracked
\* upstream connection exists in connecting or open state.
C21_UpstreamStartedLazily ==
    [][ /\ Len(sockets') > Len(sockets)
            => (ClientConnect \/ SnapshotRequest(FALSE) \/ SnapshotRequest(TRUE) \/ ReconnectTimer)
        /\ OtherRoute => UNCHANGED <<upstreamSocket, sockets>>
        /\ (SnapshotRequest(FALSE) \/ SnapshotRequest(TRUE))
            => /\ upstreamSocket' # 0
               /\ sockets'[upstreamSocket'].readyState \in {CONNECTING, OPEN} ]_vars

\* Every other route has answered without a socket being created, and then an
\* /ais/snapshot request has created and tracked the first one
C21_Witness ==
    /\ response.route = "/ais/snapshot"
    /\ Len(openskyCalls) = 1
    /\ openskyCalls[1].stage = "done"
    /\ Len(sockets) = 1
    /\ upstreamSocket = 1
    /\ sockets[1].readyState = CONNECTING
    /\ clientState = <<>>

----------------------------------------------------------------------------
(* The OpenSky token cache *)

MaxCallsToken == 3
MaxTicksToken == 3

HalfMinute == 30 * 1000
\* expires_in of a token response, in seconds; 0 stands for a missing field
TokenLifetimes == {0, 60, 120}
TokenEndings == {"token", "refused", "timeout"}
FlightReplies ==
    {Reply("response", 200), Reply("response", 401), Reply("error", 0), Reply("timeout", 0)}

InitToken ==
    /\ RelayLoaded(None)
    /\ ProxyCache
    /\ openskyCredentials \in BOOLEAN
    /\ CyberLoaded
    /\ args = Absent
    /\ result = Absent

NextToken ==
    \/ (running /\ Len(openskyCalls) < MaxCallsToken /\ OpenSkyRequest)
    \/ /\ running
       /\ \E call \in 1..Len(openskyCalls), outcome \in TokenEndings, expiresIn \in TokenLifetimes :
              /\ outcome # "token" => expiresIn = 0
              /\ TokenResponse(call, outcome, expiresIn)
    \/ /\ running
       /\ \E call \in 1..Len(openskyCalls), reply \in FlightReplies, exits \in BOOLEAN :
              FlightResponse(call, reply, exits)
    \/ (running /\ now < MaxTicksToken * HalfMinute /\ Tick(HalfMinute))

SpecToken == InitToken /\ [][NextToken]_vars

\* The flight-data request of some call is answered 401
Unauthorized ==
    \E call \in 1..Len(openskyCalls) : FlightResponse(call, Reply("response", 401), FALSE)

\* The token request of some call fails
TokenFails ==
    \E call \in 1..Len(openskyCalls), outcome \in TokenEndings \ {"token"} :
        TokenResponse(call, outcome, 0)

\* C22: while a token is cached and more than 60 seconds from expiry, every
\* /opensky request uses it and sends no token request; a 401 of the
\* flight-data API clears the cache, and a request that finds the cache empty
\* sends a token request; with credentials missing, or when the token request
\* fails, the answer is 503.
C22_TokenCachedUntilExpiryOr401 ==
    [][ /\ (OpenSkyRequest /\ openskyToken # <<>> /\ openskyTokenExpiry - now > 60000)
            => /\ tokenRequests' = tokenRequests
               /\ openskyCalls'[Len(openskyCalls')] = OpenSkyCall("fetch", openskyToken)
        /\ Unauthorized => (openskyToken' = <<>> /\ ~TokenCached')
        /\ (OpenSkyRequest /\ openskyCredentials /\ openskyToken = <<>>)
            => tokenRequests' = tokenRequests + 1
        /\ ((OpenSkyRequest /\ ~openskyCredentials) \/ TokenFails)
            => (response'.route = "/opensky" /\ response'.status = 503) ]_vars

\* One token request has served two requests while time passed; a 401 then
\* cleared the cache and the third request asked for a new token
C22_Witness ==
    /\ Len(openskyCalls) = 3
    /\ openskyCalls[2].token = <<1>>
    /\ openskyCalls[3].stage = "token"
    /\ tokenRequests = 2
    /\ openskyToken = <<>>
    /\ response.route = "/opensky"
    /\ response.status = 401
    /\ now > 0

----------------------------------------------------------------------------
(* api/cyber-threats.js: the handler of /api/cyber-threats with its memory   *)
(* cache, its stale fallback, the shared Redis cache and the IP rate         *)
(* limiter.  The handler awaits the Redis lookup and then the upstream       *)
(* sources, so a request is answered in up to three steps and requests       *)
(* overlap.                                                                  *)

CLEANUP_INTERVAL_MS == 30 * 1000

\* cleanup(now) of createIpRateLimiter: at most every cleanupIntervalMs, drop
\* the records whose window began before now - windowMs.  The eviction of the
\* oldest records above maxEntries (8000) needs more addresses than ClientIps
\* has.
cleanup(t) ==
    IF t - lastCleanupAt < CLEANUP_INTERVAL_MS
    THEN [records |-> rateRecords, lastCleanupAt |-> lastCleanupAt]
    ELSE [records |-> [ip \in ClientIps |->
                          IF rateRecords[ip] # <<>> /\ rateRecords[ip][1].windowStart < t - RATE_WINDOW_MS
                          THEN <<>> ELSE rateRecords[ip]],
          lastCleanupAt |-> t]

\* check(ip) of createIpRateLimiter: whether the request passes, and the
\* limiter's state afterwards
check(ip) ==
    LET cleaned == cleanup(now)
        record == cleaned.records[ip]
    IN  IF record = <<>> \/ now - record[1].windowStart > RATE_WINDOW_MS
        THEN [passes |-> TRUE,
              records |-> [cleaned.records EXCEPT ![ip] = <<[count |-> 1, windowStart |-> now]>>],
              lastCleanupAt |-> cleaned.lastCleanupAt]
        ELSE IF record[1].count >= RATE_LIMIT
        THEN [passes |-> FALSE, records |-> cleaned.records,
              lastCleanupAt |-> cleaned.lastCleanupAt]
        ELSE [passes |-> TRUE,
              records |-> [cleaned.records EXCEPT ![ip] =
                              <<[count |-> record[1].count + 1, windowStart |-> record[1].windowStart]>>],
              lastCleanupAt |-> cleaned.lastCleanupAt]

\* A variant of hasFreshResponseCache that expires the entry at the TTL itself
hasFreshResponseCacheUntilTtl(key) ==
    LET entry == responseMemoryCache[key]
    IN  IF entry = <<>> THEN <<>>
        ELSE IF now - entry[1].timestamp >= CACHE_TTL_MS THEN <<>>
        ELSE <<entry[1].data>>

\* hasFreshResponseCache(cacheKey): <<>> for null
hasFreshResponseCache(key) ==
    LET entry == responseMemoryCache[key]
    IN  IF entry = <<>> THEN <<>>
        ELSE IF now - entry[1].timestamp > CACHE_TTL_MS THEN <<>>
        ELSE <<entry[1].data>>

\* A variant of getStaleResponseCache that keeps entries for the fresh TTL only
getStaleResponseCacheFreshOnly(key) ==
    LET entry == staleFallbackCache[key]
    IN  IF entry = <<>> THEN [data |-> <<>>, cache |-> staleFallbackCache]
        ELSE IF now - entry[1].timestamp > CACHE_TTL_MS
        THEN [data |-> <<>>, cache |-> [staleFallbackCache EXCEPT ![key] = <<>>]]
        ELSE [data |-> <<entry[1].data>>, cache |-> staleFallbackCache]

\* getStaleResponseCache(cacheKey): what it returns (<<>> for null) and the
\* fallback cache afterwards; an entry past the maximum age is deleted
getStaleResponseCache(key) ==
    LET entry == staleFallbackCache[key]
    IN  IF entry = <<>> THEN [data |-> <<>>, cache |-> staleFallbackCache]
        ELSE IF now - entry[1].timestamp > STALE_FALLBACK_MAX_AGE_MS
        THEN [data |-> <<>>, cache |-> [staleFallbackCache EXCEPT ![key] = <<>>]]
        ELSE [data |-> <<entry[1].data>>, cache |-> staleFallbackCache]

\* setResponseCaches(cacheKey, data): one entry put into both maps
setResponseCaches(key, data) ==
    LET entry == <<[data |-> data, timestamp |-> now]>>
    IN  /\ responseMemoryCache' = [responseMemoryCache EXCEPT ![key] = entry]
        /\ staleFallbackCache' = [staleFallbackCache EXCEPT ![key] = entry]

\* The result object built from the sources that answered; cachedAt is the
\* time it was built
BuiltResult(key, okSources) ==
    [success |-> TRUE, sources |-> okSources, limit |-> key.limit, days |-> key.days,
     cachedAt |-> now]

\* { error: `Fetch failed: ...`, data: [] }
FetchFailedBody == [error |-> "Fetch failed"]

\* The requests answered so far
AnsweredCalls == {d \in 1..Len(cyberCalls) : cyberCalls[d].stage = "done"}

\* A request that has passed the rate limiter, and its response; answered are
\* the requests that had been answered when it arrived; stage is
\* "cache" while the Redis lookup is awaited, "sources" while the upstream
\* sources are awaited and "done" once the response is returned
CyberCall(ip, key) ==
    [ip |-> ip, key |-> key, arrived |-> now, answered |-> AnsweredCalls,
     stage |-> "cache", fetched |-> FALSE, status |-> 0, xCache |-> "", body |-> <<>>, at |-> 0]

\* A request answered before the cache key is looked up
CyberRefusal(ip, status) ==
    [ip |-> ip, key |-> <<>>, arrived |-> now, answered |-> AnsweredCalls,
     stage |-> "done", fetched |-> FALSE, status |-> status, xCache |-> "", body |-> <<>>,
     at |-> now]

\* return Response.json(body, { status, headers: { 'X-Cache': xCache } })
CyberAnswer(call, status, xCache, body) ==
    [cyberCalls EXCEPT ![call] = [@ EXCEPT !.stage = "done", !.status = status,
                                             !.xCache = xCache, !.body = <<body>>, !.at = now]]

\* handler(req) up to its first await: OPTIONS, the method and origin checks,
\* the rate limiter and the cache key; disallowed is what isDisallowedOrigin
\* says of the request
CyberRequest(method, disallowed, ip, limitParam, daysParam) ==
    /\ IF method = "OPTIONS"
       THEN /\ cyberCalls' = Append(cyberCalls, CyberRefusal(ip, IF disallowed THEN 403 ELSE 204))
            /\ UNCHANGED <<rateRecords, lastCleanupAt>>
       ELSE IF method # "GET"
       THEN /\ cyberCalls' = Append(cyberCalls, CyberRefusal(ip, 405))
            /\ UNCHANGED <<rateRecords, lastCleanupAt>>
       ELSE IF disallowed
       THEN /\ cyberCalls' = Append(cyberCalls, CyberRefusal(ip, 403))
            /\ UNCHANGED <<rateRecords, lastCleanupAt>>
       ELSE LET limiter == check(ip)
            IN  /\ rateRecords' = limiter.records
                /\ lastCleanupAt' = limiter.lastCleanupAt
                /\ cyberCalls' = Append(cyberCalls,
                                        IF limiter.passes
                                        THEN CyberCall(ip, cacheKey(limitParam, daysParam))
                                        ELSE CyberRefusal(ip, 429))
    /\ UNCHANGED <<now, aisVars, response, running, callVars, proxyVars,
                   responseMemoryCache, staleFallbackCache, sharedCache>>

\* What the Redis store holds for the key: the result last written by
\* setCachedJson(cacheKey, result, CACHE_TTL_SECONDS), until that TTL is over
SharedEntry(key) ==
    IF sharedCache[key] # <<>> /\ now - sharedCache[key][1].storedAt <= CACHE_TTL_MS
    THEN <<sharedCache[key][1].data>> ELSE <<>>

\* The handler from the answer of getCachedJson to its next await or return.
\* hit: the lookup returned the stored result; otherwise it returned null
\* (nothing stored, or Redis not configured or not reachable).
CacheReply(call, hit) ==
    /\ call \in 1..Len(cyberCalls)
    /\ cyberCalls[call].stage = "cache"
    /\ hit => SharedEntry(cyberCalls[call].key) # <<>>
    /\ LET key == cyberCalls[call].key
           memoryCached == hasFreshResponseCache(key)
       IN  IF hit
           THEN /\ setResponseCaches(key, SharedEntry(key)[1])
                /\ cyberCalls' = CyberAnswer(call, 200, "REDIS-HIT", SharedEntry(key)[1])
           ELSE IF memoryCached # <<>>
           THEN /\ cyberCalls' = CyberAnswer(call, 200, "MEMORY-HIT", memoryCached[1])
                /\ UNCHANGED <<responseMemoryCache, staleFallbackCache>>
           ELSE /\ cyberCalls' = [cyberCalls EXCEPT ![call] =
                                     [@ EXCEPT !.stage = "sources", !.fetched = TRUE]]
                /\ UNCHANGED <<responseMemoryCache, staleFallbackCache>>
    /\ UNCHANGED <<now, aisVars, response, running, callVars, proxyVars,
                   sharedCache, rateRecords, lastCleanupAt>>

\* The handler from the answers of the five sources to its return.  okSources
\* are the sources that returned ok; stored: the setCachedJson write reached
\* the Redis store.
SourcesReply(call, okSources, stored) ==
    /\ call \in 1..Len(cyberCalls)
    /\ cyberCalls[call].stage = "sources"
    /\ LET key == cyberCalls[call].key
           built == BuiltResult(key, okSources)
           stale == getStaleResponseCache(key)
       IN  IF okSources # {}
           THEN /\ setResponseCaches(key, built)
                /\ sharedCache' = IF stored
                                  THEN [sharedCache EXCEPT ![key] = <<[data |-> built, storedAt |-> now]>>]
                                  ELSE sharedCache
                /\ cyberCalls' = CyberAnswer(call, 200, "MISS", built)
           ELSE /\ ~stored
                /\ staleFallbackCache' = stale.cache
                /\ cyberCalls' = IF stale.data # <<>>
                                 THEN CyberAnswer(call, 200, "STALE", stale.data[1])
                                 ELSE CyberAnswer(call, 502, "", FetchFailedBody)
                /\ UNCHANGED <<responseMemoryCache, sharedCache>>
    /\ UNCHANGED <<now, aisVars, response, running, callVars, proxyVars, rateRecords,
                   lastCleanupAt>>

MaxCallsCyber == 2
MaxTicksCyber == 2
CyberMethods == {"GET", "POST", "OPTIONS"}
SourceOutcomes == {{}, {"feodo", "c2intel"}}

\* A request is answered within seconds: the clock of the model, which moves
\* in steps of ten minutes and of a day, moves between requests
AllAnswered == AnsweredCalls = 1..Len(cyberCalls)

\* The module as loaded, or after RATE_LIMIT - 1 requests of the address in
\* the current window that found nothing cached and every source failing
InitCyber ==
    /\ RelayLoaded(None)
    /\ ProxyLoaded
    /\ CyberCaches
    /\ rateRecords \in {[ip \in ClientIps |-> <<>>],
                        [ip \in ClientIps |-> <<[count |-> RATE_LIMIT - 1, windowStart |-> 0]>>]}
    /\ args = Absent
    /\ result = Absent

NextCyber ==
    \/ /\ Len(cyberCalls) < MaxCallsCyber
       /\ \E method \in CyberMethods, disallowed \in BOOLEAN, ip \in ClientIps,
             limitParam \in LimitParams, daysParam \in DaysParams :
              /\ (method # "GET" \/ disallowed) => cyberCalls = <<>>
              /\ CyberRequest(method, disallowed, ip, limitParam, daysParam)
    \/ \E call \in 1..Len(cyberCalls), hit \in BOOLEAN : CacheReply(call, hit)
    \/ \E call \in 1..Len(cyberCalls), okSources \in SourceOutcomes, stored \in BOOLEAN :
           SourcesReply(call, okSources, stored)
    \/ /\ AllAnswered
       /\ now % STALE_FALLBACK_MAX_AGE_MS < MaxTicksCyber * CACHE_TTL_MS
       /\ Tick(CACHE_TTL_MS)
    \/ (AllAnswered /\ now < STALE_FALLBACK_MAX_AGE_MS /\ Tick(STALE_FALLBACK_MAX_AGE_MS))

SpecCyber == InitCyber /\ [][NextCyber]_vars

\* The requests for the key that were answered from the upstream sources
\* before the call arrived, no longer than the fresh TTL before now
FreshMisses(call) ==
    {d \in 1..Len(cyberCalls) :
        /\ cyberCalls[d].stage = "done"
        /\ cyberCalls[d].xCache = "MISS"
        /\ cyberCalls[d].key = cyberCalls[call].key
        /\ d \in cyberCalls[call].answered
        /\ now - cyberCalls[d].at <= CACHE_TTL_MS}

\* C24: after a request for a (limit, days) has been answered from the
\* upstream sources (X-Cache MISS), every request for the same (limit, days)
\* that passes the rate limiter and has its caches consulted within the
\* 10-minute TTL is answered 200 with X-Cache MEMORY-HIT without any upstream
\* source fetch.
C24_MemoryHitWithinTtl ==
    [][ \A call \in 1..Len(cyberCalls) :
          ((\E hit \in BOOLEAN : CacheReply(call, hit)) /\ FreshMisses(call) # {})
              => /\ cyberCalls'[call].stage = "done"
                 /\ cyberCalls'[call].status = 200
                 /\ cyberCalls'[call].xCache = "MEMORY-HIT"
                 /\ ~cyberCalls'[call].fetched ]_vars

\* C24 with the shared cache: such a request is answered 200 without any
\* upstream source fetch, with X-Cache REDIS-HIT when the Redis lookup returns
\* a result and with X-Cache MEMORY-HIT from the memory cache otherwise.
C24_CacheHitWithinTtl ==
    [][ \A call \in 1..Len(cyberCalls), hit \in BOOLEAN :
          (CacheReply(call, hit) /\ FreshMisses(call) # {})
              => /\ cyberCalls'[call].stage = "done"
                 /\ cyberCalls'[call].status = 200
                 /\ cyberCalls'[call].xCache = (IF hit THEN "REDIS-HIT" ELSE "MEMORY-HIT")
                 /\ ~cyberCalls'[call].fetched
                 /\ \E d \in 1..Len(cyberCalls) :
                        /\ cyberCalls[d].stage = "done"
                        /\ cyberCalls[d].xCache = "MISS"
                        /\ cyberCalls[d].key = cyberCalls[call].key
                        /\ cyberCalls'[call].body = cyberCalls[d].body ]_vars

\* A request was answered MISS and a later one for the same key, ten minutes
\* after it, MEMORY-HIT with the same body and no fetch
C24_Witness ==
    \E d, call \in 1..Len(cyberCalls) :
        /\ cyberCalls[d].xCache = "MISS"
        /\ cyberCalls[call].xCache = "MEMORY-HIT"
        /\ cyberCalls[call].key = cyberCalls[d].key
        /\ cyberCalls[call].arrived = cyberCalls[d].at + CACHE_TTL_MS
        /\ cyberCalls[call].body = cyberCalls[d].body
        /\ ~cyberCalls[call].fetched

\* The answered requests that stored a result for the key of the call (built
\* from the sources, or taken from the Redis store) at most 24 hours ago
StoredResults(call) ==
    {d \in AnsweredCalls :
        /\ cyberCalls[d].key = cyberCalls[call].key
        /\ cyberCalls[d].xCache \in {"MISS", "REDIS-HIT"}
        /\ now - cyberCalls[d].at <= STALE_FALLBACK_MAX_AGE_MS}

\* C25: when the fresh cache for (limit, days) has expired and every upstream
\* source fails, the handler answers 200 with X-Cache STALE and the result last
\* stored for the key if one was stored at most 24 hours ago, and 502 with an
\* error body only when there is none.
C25_StaleFallbackWithinDay ==
    [][ \A call \in 1..Len(cyberCalls) :
          SourcesReply(call, {}, FALSE)
              => LET stored == StoredResults(call)
                     last == {d \in stored : \A e \in stored : cyberCalls[e].at <= cyberCalls[d].at}
                 IN  IF stored # {}
                     THEN /\ cyberCalls'[call].status = 200
                          /\ cyberCalls'[call].xCache = "STALE"
                          /\ \E d \in last : cyberCalls'[call].body = cyberCalls[d].body
                     ELSE /\ cyberCalls'[call].status = 502
                          /\ cyberCalls'[call].body = <<FetchFailedBody>> ]_vars

\* The same with the result last built from the sources in place of the
\* result last stored
C25_StaleIsLastBuilt ==
    [][ \A call \in 1..Len(cyberCalls) :
          (SourcesReply(call, {}, FALSE) /\ cyberCalls'[call].xCache = "STALE")
              => LET built == {d \in AnsweredCalls : /\ cyberCalls[d].key = cyberCalls[call].key
                                                     /\ cyberCalls[d].xCache = "MISS"}
                 IN  \E d \in built :
                        /\ cyberCalls'[call].body = cyberCalls[d].body
                        /\ \A e \in built : cyberCalls[e].body[1].cachedAt <= cyberCalls[d].body[1].cachedAt ]_vars

\* A result built from the sources was served again as STALE exactly 24 hours
\* later, after a fetch in which every source failed
C25_Witness ==
    \E d, call \in 1..Len(cyberCalls) :
        /\ cyberCalls[d].xCache = "MISS"
        /\ cyberCalls[call].xCache = "STALE"
        /\ cyberCalls[call].status = 200
        /\ cyberCalls[call].key = cyberCalls[d].key
        /\ cyberCalls[call].at = cyberCalls[d].at + STALE_FALLBACK_MAX_AGE_MS
        /\ cyberCalls[call].body = cyberCalls[d].body
        /\ cyberCalls[call].fetched

----------------------------------------------------------------------------
(* The upstream connection under every interleaving of client attaches,      *)
(* snapshot requests, socket events and reconnect timers                     *)

MaxSocketsRace == 3
RaceMessages == {ReportA1}

\* The call would return at once, or there is room for one more socket
MayConnectRace == ShouldSkipConnect \/ Len(sockets) < MaxSocketsRace

NextRace ==
    \/ (MayConnectRace /\ clientState = <<>> /\ ClientConnect)
    \/ (MayConnectRace /\ response.status = 0 /\ SnapshotRequest(FALSE))
    \/ \E s \in 1..Len(sockets) : SocketOpen(s)
    \/ /\ arrivalCount = 0
       /\ \E s \in 1..Len(sockets), message \in RaceMessages : SocketMessage(s, message)
    \/ \E s \in 1..Len(sockets) : SocketClosing(s)
    \/ \E s \in 1..Len(sockets), closing \in BOOLEAN :
           (sockets[s].errors = 0 /\ SocketError(s, closing))
    \/ \E s \in 1..Len(sockets) :
          /\ upstreamSocket = s => Len(sockets) < MaxSocketsRace
          /\ SocketClose(s)
    \/ ReconnectTimer
    \/ (now = 0 /\ Tick(RECONNECT_DELAY_MS))

SpecRace == Start(None) /\ [][NextRace]_vars

\* The sockets that are connecting or open
LiveSockets == {s \in 1..Len(sockets) : sockets[s].readyState \in {CONNECTING, OPEN}}

\* C26: an open, message or close event of an upstream socket that is not the
\* tracked one changes nothing: the message counter, the vessel, history, grid
\* and candidate stores, the tracked reference and the scheduled reconnects
\* are unchanged, nothing is broadcast and no subscription is sent.
C26_StaleEventsChangeNothing ==
    [][ \A s \in 1..Len(sockets) :
          ( /\ upstreamSocket # s
            /\ \/ SocketOpen(s)
               \/ SocketClose(s)
               \/ \E message \in RaceMessages : SocketMessage(s, message) )
              => /\ UNCHANGED <<messageCount, storeVars, upstreamSocket, reconnectTimers, sent>>
                 /\ Len(sockets') = Len(sockets)
                 /\ \A t \in 1..Len(sockets) : sockets'[t].subscribed = sockets[t].subscribed ]_vars

\* A message and then the close event of the first socket arrived after a
\* second socket had replaced it: the message was not counted and no
\* reconnect is scheduled
C26_Witness ==
    /\ Len(sockets) = 2
    /\ upstreamSocket = 2
    /\ sockets[1].readyState = CLOSED
    /\ arrivalCount = 1
    /\ messageCount = 0
    /\ reconnectTimers = <<>>
    /\ now = 0

\* C27: at any time at most one upstream socket is connecting or open, and it
\* is the tracked one.
C27_OneLiveUpstreamSocket ==
    /\ Cardinality(LiveSockets) <= 1
    /\ \A s \in LiveSockets : s = upstreamSocket

\* Two reconnect timers were pending at once and have fallen due: the first
\* has opened the third socket, which is live, and the second is still to fire
C27_Witness ==
    /\ Len(reconnectTimers) = 1
    /\ reconnectTimers[1] <= now
    /\ Len(sockets) = 3
    /\ LiveSockets = {3}
    /\ upstreamSocket = 3

MaxMessagesCount == 2
CountMessages == {ReportA1, Malformed, StaticData, NoBody}

NextCount ==
    \/ (clientState = <<>> /\ ClientConnect)
    \/ \E c \in 1..Len(clientState) : ClientClose(c)
    \/ \E s \in 1..Len(sockets) : SocketOpen(s)
    \/ /\ arrivalCount < MaxMessagesCount
       /\ \E s \in 1..Len(sockets), message \in CountMessages : SocketMessage(s, message)
    \/ \E s \in 1..Len(sockets) : SocketClosing(s)
    \/ \E s \in 1..Len(sockets) : SocketClose(s)
    \/ (response.status = 0 /\ SnapshotRequest(FALSE))

SpecCount == Start(None) /\ [][NextCount]_vars

\* The step is the message handler run for a message of the tracked socket
TrackedDelivery ==
    \E message \in CountMessages : SocketMessage(upstreamSocket, message)

\* C28: the message counter never decreases; it increases by exactly 1 with
\* each message the tracked upstream socket delivers, whether or not the
\* message parses or is ingested, and that message is handed to the fanout; no
\* other step changes the counter or hands anything to the fanout.
C28_CounterCountsFanout ==
    [][ /\ messageCount' >= messageCount
        /\ \A message \in CountMessages :
              (upstreamSocket # 0 /\ SocketMessage(upstreamSocket, message))
                  => /\ messageCount' = messageCount + 1
                     /\ sent' = Broadcast(sent, toString(message), arrivalCount')
        /\ (upstreamSocket = 0 \/ ~TrackedDelivery)
              => /\ messageCount' = messageCount
                 /\ \A c \in 1..Len(sent) : sent'[c] = sent[c]
        /\ \A c \in 1..Len(sent') : Len(sent'[c]) <= messageCount' ]_vars

\* Two messages were counted and handed to the client: one that is not JSON
\* and one that was ingested
C28_Witness ==
    /\ messageCount = 2
    /\ vessels # <<>>
    /\ Len(sent) >= 1
    /\ Len(sent[1]) = 2
    /\ \E k \in 1..2 : sent[1][k].raw = toString(Malformed)

\* C29: an error event of an upstream socket keeps the tracked reference,
\* schedules no reconnect and opens no connection, and changes no other state
\* of the relay; a reconnect is scheduled by the close event of the tracked
\* socket and by no other step, one for each such close.
C29_ErrorChangesNothing ==
    [][ /\ \A s \in 1..Len(sockets), closing \in BOOLEAN :
              SocketError(s, closing)
                  => /\ UNCHANGED <<upstreamSocket, reconnectTimers, clientVars, messageCount,
                                   storeVars, snapVars, sent>>
                     /\ Len(sockets') = Len(sockets)
                     /\ \A t \in 1..Len(sockets) : sockets'[t].subscribed = sockets[t].subscribed
        /\ IF upstreamSocket # 0 /\ SocketClose(upstreamSocket)
           THEN reconnectTimers' = Append(reconnectTimers, now + RECONNECT_DELAY_MS)
           ELSE \/ reconnectTimers' = reconnectTimers
                \/ (reconnectTimers # <<>> /\ reconnectTimers' = Tail(reconnectTimers)) ]_vars

\* The tracked socket emitted an error and then closed: one reconnect is
\* scheduled and the tracked reference is cleared
C29_Witness ==
    /\ Len(sockets) = 1
    /\ sockets[1].errors = 1
    /\ sockets[1].readyState = CLOSED
    /\ upstreamSocket = 0
    /\ reconnectTimers = <<now + RECONNECT_DELAY_MS>>

----------------------------------------------------------------------------
(* Occupants of the density cells between sweeps *)

\* Every occupant of every cell of the grid has a VesselRecord that is at
\* most 30 minutes old at time t
OccupantsFresh(grid, vs, t) ==
    \A i \in 1..Len(grid) : \A m \in grid[i].vessels :
        m \in DOMAIN vs /\ t - vs[m].timestamp <= DENSITY_WINDOW

\* C30: in every reachable state, not only right after a sweep, every occupant
\* of every DensityCell is a vessel that has a VesselRecord whose timestamp
\* lies within the last 30 minutes.
C30_OccupantsAlwaysFresh == OccupantsFresh(densityGrid, vessels, now)

\* What holds at all times is that every occupant has a VesselRecord, and
\* right after a sweep that the record is at most 30 minutes old
C30_OccupantsFreshAfterSweep ==
    [][ /\ \A i \in 1..Len(densityGrid') :
              densityGrid'[i].vessels \subseteq DOMAIN vessels'
        /\ Rebuilt => OccupantsFresh(densityGrid', vessels', now') ]_vars

----------------------------------------------------------------------------
(* Deletion of density cells by the sweep *)

\* The cells of the grid before the step whose key the grid after it lacks
DeletedCells ==
    {i \in 1..Len(densityGrid) : densityGrid[i].key \notin GridKeys(densityGrid')}

\* The occupants of the cell that the sweep at time t leaves in place
Remaining(cell, vs, t) ==
    {m \in cell.vessels : m \in DOMAIN vs /\ t - vs[m].timestamp <= DENSITY_WINDOW}

----------------------------------------------------------------------------
(* SpecRetain: vessels report from the centre of the Strait of Hormuz, half *)
(* hours pass, and snapshots are rebuilt.  Every report comes from a vessel *)
(* not seen before or from the first vessel again.                          *)

MaxMessagesRetain == 6
MaxTicksRetain == 2

RetainMessages ==
    {ChokeReport(k, DegHalf(26)) : k \in {1, Cardinality(DOMAIN reportLog) + 1}}

NextRetain ==
    \/ (upstreamSocket = 0 /\ SnapshotRequest(FALSE))
    \/ \E s \in 1..Len(sockets) : SocketOpen(s)
    \/ /\ arrivalCount < MaxMessagesRetain
       /\ \E s \in 1..Len(sockets), message \in RetainMessages : SocketMessage(s, message)
    \/ SnapshotTimer
    \/ (now < MaxTicksRetain * HalfHour /\ Tick(HalfHour))

SpecRetain == Start(None) /\ [][NextRetain]_vars

\* The vessels whose last report is at most 30 minutes before time t
ReportedWithinWindow(t) ==
    {m \in DOMAIN reportLog : t - reportLog[m].at <= 30 * 60 * 1000}

\* C32: every genuine rebuild runs the retention sweep before detection and
\* serialization: after the sweep no VesselRecord older than 30 minutes
\* remains and none within 30 minutes was removed, so the rebuilt snapshot's
\* vessel count and chokepoint counts include only the vessels whose last
\* report is at most 30 minutes before the build.
C32_RebuildCountsFreshVessels ==
    [][ Rebuilt =>
          LET fresh == ReportedWithinWindow(now)
          IN  /\ DOMAIN vessels' = fresh
              /\ \A m \in fresh : vessels'[m] = vessels[m]
              /\ lastSnapshot'.status.vessels = Cardinality(fresh)
              /\ \A i \in 1..Len(CHOKEPOINTS) :
                    LET records == CongestionRecords(lastSnapshot', CHOKEPOINTS[i])
                        n == Cardinality(VesselsAt(fresh, CHOKEPOINTS[i]))
                    IN  /\ (records # {}) <=> (n >= MIN_CONGESTION)
                        /\ \A j \in records :
                              lastSnapshot'.disruptions[j].vesselCount = n ]_vars

\* Six vessels have reported, one of them an hour ago and five exactly 30
\* minutes ago: the snapshot built now counts five vessels, five at the strait
C32_Witness ==
    /\ IsSnapshot(lastSnapshot)
    /\ lastSnapshotAt = now
    /\ Cardinality(DOMAIN reportLog) = 6
    /\ \E m \in DOMAIN reportLog : now - reportLog[m].at = 2 * HalfHour
    /\ \A m \in DOMAIN vessels : now - vessels[m].timestamp = HalfHour
    /\ lastSnapshot.status.vessels = 5
    /\ Len(lastSnapshot.disruptions) = 1
    /\ lastSnapshot.disruptions[1].vesselCount = 5

----------------------------------------------------------------------------
(* PositionHistory after a sweep *)

\* The positions of the history whose timestamp is inside the window at time t
InsideWindow(history, t) ==
    {i \in 1..Len(history) : t - history[i] <= 30 * 60 * 1000}

\* The k-th smallest element of a set of positions
NthPosition(positions, k) ==
    CHOOSE i \in positions : Cardinality({j \in positions : j < i}) = k - 1

\* C33: after every sweep each PositionHistory contains only timestamps inside
\* the 30-minute density window, in their original order, and a history left
\* with no timestamps is removed entirely.
C33_HistoryPrunedToWindow ==
    [][ Rebuilt =>
          /\ DOMAIN vesselHistory' \subseteq DOMAIN vesselHistory
          /\ \A m \in DOMAIN vesselHistory :
                LET kept == InsideWindow(vesselHistory[m], now)
                IN  IF kept = {}
                    THEN m \notin DOMAIN vesselHistory'
                    ELSE /\ m \in DOMAIN vesselHistory'
                         /\ Len(vesselHistory'[m]) = Cardinality(kept)
                         /\ \A k \in 1..Cardinality(kept) :
                               vesselHistory'[m][k] = vesselHistory[m][NthPosition(kept, k)] ]_vars

\* Right after a rebuild at minute 60: of the first vessel's reports at
\* minutes 0 and 30 the history keeps the second, and the history of the
\* other vessel, reported at minute 0, is gone
C33_Witness ==
    /\ lastSnapshotAt = now
    /\ now = 2 * HalfHour
    /\ MMSI_A \in DOMAIN reportLog
    /\ reportLog[MMSI_A].prev = <<0>>
    /\ MMSI_B \in DOMAIN reportLog
    /\ DOMAIN vesselHistory = {MMSI_A}
    /\ vesselHistory[MMSI_A] = <<HalfHour>>

----------------------------------------------------------------------------
(* SpecGap: detectDisruptions applied to a history store in which count     *)
(* vessels were silent for a gap and reported again, age milliseconds       *)
(* before now; other vessels reported once, or three times with the long   *)
(* silence before their last two reports.                                   *)

MaxCountGap == 22
OneMinute == 60 * 1000

GapChoices == {30 * OneMinute, 60 * OneMinute, 60 * OneMinute + 1, 90 * OneMinute}
AgeChoices == {0, 10 * OneMinute - 1, 10 * OneMinute}

\* The time of the last report of every vessel of the store
LastReportAt(gap) == 2 * 60 * OneMinute + gap

\* Vessels 1..count returned after the gap; with others, vessel count + 1
\* reported once and vessel count + 2 three times
GapHistories(count, gap, others) ==
    LET last == LastReportAt(gap)
        ids == 1..(count + IF others THEN 2 ELSE 0)
    IN  [m \in {VesselId(k) : k \in ids} |->
            IF m \in {VesselId(k) : k \in 1..count} THEN <<last - gap, last>>
            ELSE IF m = VesselId(count + 1) THEN <<last>>
            ELSE <<last - 92 * OneMinute, last - OneMinute, last>>]

InitGap ==
    /\ Loaded(None)
    /\ args \in [count : 0..MaxCountGap, gap : GapChoices, age : AgeChoices,
                 others : BOOLEAN]
    /\ result = Absent

ApplyDetectDisruptions ==
    /\ result = Absent
    /\ result' = [value |-> detectDisruptions(
                                <<>>,
                                GapHistories(args.count, args.gap, args.others),
                                LastReportAt(args.gap) + args.age)]
    /\ UNCHANGED <<programVars, args>>

NextGap == ApplyDetectDisruptions

SpecGap == InitGap /\ [][NextGap]_vars

\* C34: detectDisruptions counts a vessel as a dark-return only if its two
\* most recent history timestamps are more than 60 minutes apart and the
\* latest is less than 10 minutes before now (a 30-minute gap never counts);
\* it emits exactly one gap_spike record if and only if the count is >= 1,
\* with severity high if count > 20, elevated if count > 10, else low, and
\* changePct = count x 10.
C34_GapSpikeFromDarkReturns ==
    result # Absent =>
        LET records == result.value
            isBack == args.gap > 60 * OneMinute /\ args.age < 10 * OneMinute
            count == IF isBack THEN args.count ELSE 0
        IN  IF count >= 1
            THEN /\ Len(records) = 1
                 /\ records[1].type = "gap_spike"
                 /\ records[1].darkShips = count
                 /\ records[1].severity =
                        IF count > 20 THEN "high"
                        ELSE IF count > 10 THEN "elevated"
                        ELSE "low"
                 /\ records[1].changePct = count * 10
            ELSE records = <<>>

\* 21 vessels back after 60 minutes and a millisecond, seen just under ten
\* minutes ago, among others that do not count: one record, high, 210
C34_Witness ==
    /\ result # Absent
    /\ args = [count |-> 21, gap |-> 60 * OneMinute + 1, age |-> 10 * OneMinute - 1,
               others |-> TRUE]
    /\ Len(result.value) = 1
    /\ result.value[1].severity = "high"
    /\ result.value[1].changePct = 210

----------------------------------------------------------------------------
(* SpecIdle: one vessel reports once, the upstream connection comes and     *)
(* goes, and the snapshot timer keeps firing while half hours pass.  The    *)
(* interval timer fires again and again and time passes (weak fairness);    *)
(* nothing is assumed of requests, clients or the upstream source.          *)

MaxSocketsIdle == 2
MaxTicksIdle == 2

NextIdle ==
    \/ (clientState = <<>> /\ ClientConnect)
    \/ (response.status = 0 /\ SnapshotRequest(FALSE))
    \/ \E s \in 1..Len(sockets) : SocketOpen(s)
    \/ /\ now = 0
       /\ arrivalCount = 0
       /\ \E s \in 1..Len(sockets) : SocketMessage(s, ReportA1)
    \/ \E s \in 1..Len(sockets) :
          /\ upstreamSocket = s => Len(sockets) < MaxSocketsIdle
          /\ SocketClose(s)
    \/ ReconnectTimer
    \/ SnapshotTimer
    \/ (now < MaxTicksIdle * HalfHour /\ Tick(HalfHour))

SpecIdle ==
    /\ Start(None)
    /\ [][NextIdle]_vars
    /\ WF_vars(SnapshotTimer)
    /\ WF_vars(now < MaxTicksIdle * HalfHour /\ Tick(HalfHour))

\* C35: on each background timer tick a rebuild is attempted if and only if
\* the upstream connection is open or at least one VesselRecord exists (the
\* attempt rebuilds unless the cached snapshot is younger than half the
\* interval); otherwise the tick leaves the stores, the cached snapshot and
\* the sequence number unchanged.  A firing that has to rebuild changes the
\* state, and every firing that changes the state is such a rebuild.
TimerOpen == upstreamSocket # 0 /\ sockets[upstreamSocket].readyState = OPEN
TimerTracking == DOMAIN vessels # {}
TimerYoung == IsSnapshot(lastSnapshot) /\ now - lastSnapshotAt < SNAPSHOT_INTERVAL_MS \div 2

C35_TimerRebuildsWhenOpenOrTracking ==
    /\ []( ((TimerOpen \/ TimerTracking) /\ ~TimerYoung) => ENABLED <<SnapshotTimer>>_vars )
    /\ [][ SnapshotTimer =>
              IF (TimerOpen \/ TimerTracking) /\ ~TimerYoung
              THEN /\ snapshotSequence' = snapshotSequence + 1
                   /\ lastSnapshotAt' = now
                   /\ lastSnapshot'.sequence = snapshotSequence'
                   /\ lastSnapshot'.status.connected = TimerOpen
              ELSE UNCHANGED <<storeVars, snapVars>> ]_vars

\* No request was ever made and the connection is down; the timer built a
\* snapshot because a vessel was tracked
C35_Witness ==
    /\ response.status = 0
    /\ upstreamSocket = 0
    /\ IsSnapshot(lastSnapshot)
    /\ ~lastSnapshot.status.connected
    /\ lastSnapshot.status.vessels = 1

\* The vessel has no VesselRecord, no PositionHistory and occupies no cell
Forgotten(mmsi) ==
    /\ mmsi \notin DOMAIN vessels
    /\ mmsi \notin DOMAIN vesselHistory
    /\ \A i \in 1..Len(densityGrid) : mmsi \notin densityGrid[i].vessels

\* C40: if a vessel stops reporting, its VesselRecord, its PositionHistory and
\* its occupancy in every DensityCell are eventually removed without any HTTP
\* request, assuming only that the background timer keeps firing and time
\* passes, also while the upstream connection is down.
C40_SilentVesselEventuallyForgotten ==
    (MMSI_A \in DOMAIN vessels) ~> Forgotten(MMSI_A)

\* The vessel reported and is forgotten by a rebuild of the timer made while
\* the connection was down; no request was ever made
C40_Witness ==
    /\ MMSI_A \in DOMAIN reportLog
    /\ Forgotten(MMSI_A)
    /\ response.status = 0
    /\ upstreamSocket = 0
    /\ lastSnapshotAt = now
    /\ IsSnapshot(lastSnapshot)
    /\ ~lastSnapshot.status.connected
    /\ lastSnapshot.status.vessels = 0

----------------------------------------------------------------------------
(* SpecWrites: the responses the /rss and /opensky handlers write for one   *)
(* request, event by event of the outbound request.  A request that times   *)
(* out is destroyed by its timeout handler; the runtime may answer the      *)
(* destroy with an 'error' event (socket hang up) on the same request.      *)

\* The events of the outbound request that met the reply, in order
RequestEvents(reply, errorAfterDestroy) ==
    IF reply.kind = "response" THEN <<"end">>
    ELSE IF reply.kind = "corrupt" THEN <<"streamError">>
    ELSE IF reply.kind = "error" THEN <<"error">>
    ELSE IF errorAfterDestroy THEN <<"timeout", "error">>
    ELSE <<"timeout">>

\* The handlers of /rss: each one returns when responseHandled is set or the
\* headers are sent, and otherwise writes its response
RECURSIVE RssHandlers(_, _, _)
RssHandlers(written, events, reply) ==
    IF events = <<>> THEN written
    ELSE LET event == Head(events)
             answer == IF event = "end" THEN PassThrough(reply)
                       ELSE IF event = "timeout" THEN sendError(504)
                       ELSE sendError(502)
         IN  RssHandlers(IF written # <<>> THEN written ELSE Append(written, answer),
                         Tail(events), reply)

\* The calls of res.writeHead that one /rss request leads to
RECURSIVE RssResponses(_, _, _)
RssResponses(upstream, redirectCount, errorAfterDestroy) ==
    IF redirectCount > 3 THEN <<sendError(502)>>
    ELSE LET reply == upstream[redirectCount + 1]
         IN  IF reply.kind = "redirect"
             THEN RssResponses(upstream, redirectCount + 1, errorAfterDestroy)
             ELSE RssHandlers(<<>>, RequestEvents(reply, errorAfterDestroy), reply)

\* The handlers of the flight-data request of /opensky: each one writes its
\* response
RECURSIVE OpenSkyHandlers(_, _, _)
OpenSkyHandlers(written, events, reply) ==
    IF events = <<>> THEN written
    ELSE LET event == Head(events)
             answer == IF event = "end" THEN PassThrough(reply)
                       ELSE IF event = "timeout" THEN sendError(504)
                       ELSE sendError(500)
         IN  OpenSkyHandlers(Append(written, answer), Tail(events), reply)

\* The calls of res.writeHead that one /opensky request leads to
OpenSkyResponses(token, reply, errorAfterDestroy) ==
    IF getOpenSkyToken(token) = <<>> THEN <<sendError(503)>>
    ELSE OpenSkyHandlers(<<>>, RequestEvents(reply, errorAfterDestroy), reply)

InitWrites ==
    /\ Loaded(None)
    /\ args \in [request : ProxyRequests, errorAfterDestroy : BOOLEAN]
    /\ result = Absent

ApplyRssResponses ==
    /\ result = Absent
    /\ args.request.route = "/rss"
    /\ result' = [value |-> RssResponses(args.request.upstream, 0, args.errorAfterDestroy)]
    /\ UNCHANGED <<programVars, args>>

ApplyOpenSkyResponses ==
    /\ result = Absent
    /\ args.request.route = "/opensky"
    /\ result' = [value |-> OpenSkyResponses(args.request.token, args.request.upstream,
                                             args.errorAfterDestroy)]
    /\ UNCHANGED <<programVars, args>>

NextWrites == ApplyRssResponses \/ ApplyOpenSkyResponses

SpecWrites == InitWrites /\ [][NextWrites]_vars

\* C36: each /rss and /opensky request results in exactly one response being
\* written on every path: success, upstream error, decompression failure,
\* redirect limit, and timeout, where the outbound request is destroyed and
\* its error handler may run after the timeout handler; no handler writes a
\* second response.
C36_ExactlyOneResponseWritten ==
    result # Absent => Len(result.value) = 1

\* What holds: every /rss request leads to exactly one response, the one
\* fetchWithRedirects answers, and every /opensky request to at least one,
\* with a second one only when an error event follows the timeout
C36_RssWritesOnceOpenSkyTwiceAfterTimeout ==
    result # Absent =>
        IF args.request.route = "/rss"
        THEN result.value = <<fetchWithRedirects(args.request.upstream, 0)>>
        ELSE /\ result.value[1] = handleOpenSkyRequest(args.request.token, args.request.upstream)
             /\ Len(result.value) =
                    IF /\ args.request.token = "token"
                       /\ args.request.upstream.kind = "timeout"
                       /\ args.errorAfterDestroy
                    THEN 2 ELSE 1

----------------------------------------------------------------------------
(* SpecHosts: the hosts the /rss handler sends requests to for one request. *)
(* The url parameter names a host; each reply of the chain is a redirect    *)
(* whose location names a host or is relative, and the last reply is final. *)

MaxHopsHosts == 4

allowedDomains ==
    { "rss.cnn.com", "www.defensenews.com", "layoffs.fyi",
      "news.un.org", "www.cisa.gov", "www.iaea.org", "www.who.int",
      "www.crisisgroup.org",
      "english.alarabiya.net", "www.arabnews.com", "www.timesofisrael.com",
      "www.scmp.com", "kyivindependent.com", "www.themoscowtimes.com",
      "feeds.24.com", "feeds.capi24.com" }

\* location.startsWith('http') ? location : new URL(location, url).href
RedirectHost(location, host) == IF location = "relative" THEN host ELSE location

\* The hosts of the protocol.get calls of fetchWithRedirects(url, redirectCount),
\* in order; locations are the location headers of the redirects to come
RECURSIVE FetchedHosts(_, _, _)
FetchedHosts(host, locations, redirectCount) ==
    IF redirectCount > 3 THEN <<>>
    ELSE IF locations = <<>> THEN <<host>>
    ELSE <<host>> \o FetchedHosts(RedirectHost(Head(locations), host),
                                  Tail(locations), redirectCount + 1)

\* The handler of /rss: 403 for a host that is not allowed, else the fetch
RssHosts(feedHost, locations) ==
    IF feedHost \notin allowedDomains THEN <<>>
    ELSE FetchedHosts(feedHost, locations, 0)

FeedHosts == {"feeds.24.com", "rss.cnn.com", "feeds.example.org"}
Locations == {"feeds.capi24.com", "relative", "169.254.169.254"}

RECURSIVE SeqsUpTo(_, _)
SeqsUpTo(S, n) ==
    IF n = 0 THEN {<<>>}
    ELSE LET shorter == SeqsUpTo(S, n - 1)
         IN  shorter \cup {Append(s, x) : s \in {t \in shorter : Len(t) = n - 1}, x \in S}

InitHosts ==
    /\ Loaded(None)
    /\ args \in [feedHost : FeedHosts, locations : SeqsUpTo(Locations, MaxHopsHosts)]
    /\ result = Absent

ApplyRssHosts ==
    /\ result = Absent
    /\ result' = [value |-> RssHosts(args.feedHost, args.locations)]
    /\ UNCHANGED <<programVars, args>>

NextHosts == ApplyRssHosts

SpecHosts == InitHosts /\ [][NextHosts]_vars

\* C37: every outbound fetch made on behalf of an /rss request, including
\* each redirect hop, targets a host on the allowlist; the proxy never sends a
\* request to a host that is not on it.
C37_EveryFetchAllowlisted ==
    result # Absent =>
        \A k \in 1..Len(result.value) : result.value[k] \in allowedDomains

\* What holds: the first fetch goes to the host of the url parameter, which is
\* on the allowlist, and every later fetch goes where the redirect before it
\* points, on the allowlist or not
C37_FirstFetchAllowlisted ==
    result # Absent =>
        /\ result.value # <<>> =>
              (result.value[1] = args.feedHost /\ args.feedHost \in allowedDomains)
        /\ \A k \in 2..Len(result.value) :
              result.value[k] = RedirectHost(args.locations[k - 1], result.value[k - 1])
        /\ Len(result.value) <= 4

----------------------------------------------------------------------------
(* VesselRecords and PositionHistories side by side *)

\* C38: in every reachable state the vessels with a VesselRecord are the
\* vessels with a PositionHistory; each history is non-empty, in non-decreasing
\* time order, and its newest timestamp is the timestamp of the vessel's
\* VesselRecord.
C38_RecordsAndHistoriesAgree ==
    /\ DOMAIN vessels = DOMAIN vesselHistory
    /\ \A m \in DOMAIN vesselHistory :
          LET history == vesselHistory[m]
          IN  /\ history # <<>>
              /\ \A i \in 1..(Len(history) - 1) : history[i] <= history[i + 1]
              /\ m \in DOMAIN vessels => history[Len(history)] = vessels[m].timestamp

\* After a sweep that removed one vessel, record and history alike, the other
\* vessel has a record and a history of two timestamps, one exactly 30
\* minutes old
C38_Witness ==
    /\ snapshotSequence >= 1
    /\ lastSnapshotAt = now
    /\ MMSI_B \in DOMAIN reportLog
    /\ DOMAIN vessels = {MMSI_A}
    /\ DOMAIN vesselHistory = {MMSI_A}
    /\ vesselHistory[MMSI_A] = <<now - HalfHour, now>>
    /\ vessels[MMSI_A].timestamp = now

----------------------------------------------------------------------------
(* deltaPct of the density zones of a rebuilt snapshot *)

\* C39: in every rebuilt snapshot each density zone's deltaPct is <= 0:
\* previousCount is captured at the start of the sweep that immediately
\* precedes serialization and that sweep only removes occupants, so at
\* serialization a cell's occupant count never exceeds its previousCount.
\* deltaPct is below 0 exactly for the zones whose cell lost occupants in
\* that sweep.
C39_DeltaPctNeverPositive ==
    [][ Rebuilt =>
          \A i \in 1..Len(lastSnapshot'.density) :
              LET zone == lastSnapshot'.density[i]
                  before == Cell(densityGrid, zone.id)
                  after == Cell(densityGrid', zone.id)
              IN  /\ zone.deltaPct <= 0
                  /\ Cardinality(after.vessels) <= after.previousCount
                  /\ after.previousCount = Cardinality(before.vessels)
                  /\ zone.deltaPct < 0 <=>
                        Cardinality(after.vessels) < Cardinality(before.vessels) ]_vars

\* A snapshot just rebuilt with one zone: of the three occupants of the cell
\* the sweep removed one, deltaPct is -33
C39_Witness ==
    /\ IsSnapshot(lastSnapshot)
    /\ lastSnapshotAt = now
    /\ Len(lastSnapshot.density) = 1
    /\ lastSnapshot.density[1].occupants = 2
    /\ lastSnapshot.density[1].deltaPct = 0 - 33
    /\ Cell(densityGrid, lastSnapshot.density[1].id).previousCount = 3

====
